---- MODULE Spec2Model ----
(***************************************************************************)
(* LSNP: a UDP social/messaging protocol.  Three programs are modelled:    *)
(*   lsnp.py   - the peer-to-peer node (listen_loop, process_messages,     *)
(*               send_with_retry, tokens, file chunks),                    *)
(*   server.py - the rendezvous server (handle_message),                   *)
(*   client.py - the server-mediated client (listen_loop, file transfer).  *)
(* Each program has its own group of variables and its own specification;  *)
(* a specification leaves the other programs' variables untouched.         *)
(***************************************************************************)
EXTENDS Integers, Sequences, FiniteSets, TLC

VARIABLES
  \* ---- lsnp.py ----
  l_net,          \* datagrams in flight between lsnp nodes
  message_queue,  \* lsnp.py message_queue, per node
  tokens,         \* lsnp.py tokens, per node: token -> {scope, expiry, revoked}
  games,          \* lsnp.py games, per node: game_id -> game state
  peers,          \* lsnp.py peers, per node: user_id -> {ip, display_name, avatar, last_seen}
  swr,            \* the main thread's send_with_retry frame, per node
  running,        \* lsnp.py running, per node (TRUE until the process exits)
  l_now,          \* time.time()
  nsent,          \* send_udp calls made by the current send_with_retry call, per node
  ackGot,         \* an ACK for the current msg_id was in message_queue during the call
  ncalls,         \* reliable sends started so far (bounded)
  \* ---- server.py ----
  clients,        \* server.py clients: user_id -> {ip, port, name, status, last_seen, follows, followers}
  s_now,          \* time.time() at the server
  s_in,           \* the datagram the last handle_message call was given
  s_out,          \* the datagrams that call passed to send_udp
  \* ---- the header codec (server.py forward_message / send_udp, and the
  \*      header loop of handle_message and client.py listen_loop) ----
  k_headers,      \* the header list given to forward_message
  k_text,         \* the text handed to sendto
  k_parsed,       \* the headers dict the receiver builds from it
  k_pc,           \* "build", "sent" or "parsed"
  \* ---- client.py, file transfer ----
  incoming_files, \* client.py incoming_files: file_id -> {total_chunks, received_chunks, last_chunk_time, status}
  downloads,      \* the files written under downloads/: file_id -> bytes
  c_sent,         \* FILE_RECEIVED messages passed to send_udp: <<file_id, status>> -> count
  c_listening,    \* the listen_loop thread is alive
  c_arrived,      \* <<file_id, chunk_index>> of the chunks that reached the socket since the file was accepted
  c_stray,        \* file ids for which a chunk with an index outside the range or bad DATA reached the socket
  c_now,          \* time.time() at the client
  c_in,           \* the FILE_CHUNK that listen_loop handled in the last step
  \* ---- lsnp.py, file transfer ----
  received_chunks, \* lsnp.py received_chunks: fileid -> {total, chunks, sender}
  f_files,        \* the files written under received/: fileid -> bytes
  f_completions,  \* FILE_RECEIVED messages sent, which is also the number of writes: fileid -> count
  f_alive,        \* the process_messages thread is alive
  \* ---- lsnp.py, send_post ----
  post_todo,      \* the peers the for loop of send_post has still to visit, per node
  \* ---- server.py, cleanup_loop's schedule ----
  s_swept,        \* the time of cleanup_loop's last sweep, after which it sleeps CLEANUP_INTERVAL
  s_removed,      \* server.py removed: the ids the last sweep deleted
  \* ---- client.py, the sending side of a file transfer ----
  outgoing_files, \* client.py outgoing_files: file_id -> {to_user, total_chunks, sent_chunks, status}
  o_threads,      \* the send_file_chunks threads that run: file_id -> the loop index i
  o_sent,         \* the datagrams the sending client passed to send_udp
  \* ---- lsnp.py, groups ----
  groups,         \* lsnp.py groups, per node: group_id -> {members}
  group_loop,     \* the for loop over members of create_group / send_group_message, per node
  \* ---- server.py, the lock and one handle_message thread ----
  lock,           \* server.py lock: the thread that holds it, or None
  h_pc,           \* the handle_message thread: "recv", "locked" (inside with lock) or "sendto" (inside sock.sendto)
  h_todo,         \* the send_udp calls the branch has still to make
  \* ---- lsnp.py, the statements of make_move and handle_move on node a ----
  mm,             \* the main thread inside make_move: the statement it is at, pos, symbol
  hm,             \* the process_messages thread inside handle_move: the statement it is at, pos, turn, symbol
  \* ---- the chunk loops of client.py and lsnp.py send_file_chunks ----
  z_pc,           \* "idle", "client" or "lsnp" (inside the loop), "sent_client" or "sent_lsnp" (after it)
  z_size,         \* os.path.getsize of the file, len(data)
  z_total,        \* the TOTAL_CHUNKS header
  z_i,            \* the loop index
  z_chunks        \* the FILE_CHUNK messages sent: <<index header, number of bytes>>

l_vars == <<l_net, message_queue, tokens, games, peers, swr, running, l_now, nsent,
            ackGot, ncalls>>

s_vars == <<clients, s_now, s_in, s_out>>

k_vars == <<k_headers, k_text, k_parsed, k_pc>>

c_vars == <<incoming_files, downloads, c_sent, c_listening, c_arrived, c_stray, c_now,
            c_in>>

f_vars == <<received_chunks, f_files, f_completions, f_alive>>

p_vars == <<post_todo>>

w_vars == <<s_swept, s_removed>>

o_vars == <<outgoing_files, o_threads, o_sent>>

g_vars == <<groups, group_loop>>

m_vars == <<lock, h_pc, h_todo>>

r_vars == <<mm, hm>>

z_vars == <<z_pc, z_size, z_total, z_i, z_chunks>>

vars == <<l_vars, s_vars, k_vars, c_vars, f_vars, p_vars, w_vars, o_vars, g_vars,
          m_vars, r_vars, z_vars>>

\* what a step of one program leaves alone: the state of the other programs
not_l == <<s_vars, k_vars, c_vars, f_vars, p_vars, w_vars, o_vars, g_vars, m_vars, r_vars, z_vars>>
not_s == <<l_vars, k_vars, c_vars, f_vars, p_vars, w_vars, o_vars, g_vars, m_vars, r_vars, z_vars>>
not_k == <<l_vars, s_vars, c_vars, f_vars, p_vars, w_vars, o_vars, g_vars, m_vars, r_vars, z_vars>>
not_c == <<l_vars, s_vars, k_vars, f_vars, p_vars, w_vars, o_vars, g_vars, m_vars, r_vars, z_vars>>
not_f == <<l_vars, s_vars, k_vars, c_vars, p_vars, w_vars, o_vars, g_vars, m_vars, r_vars, z_vars>>
not_lp == <<s_vars, k_vars, c_vars, f_vars, w_vars, o_vars, g_vars, m_vars, r_vars, z_vars>>
not_o == <<l_vars, s_vars, k_vars, c_vars, f_vars, p_vars, w_vars, g_vars, m_vars, r_vars, z_vars>>
not_lg == <<s_vars, k_vars, c_vars, f_vars, p_vars, w_vars, o_vars, m_vars, r_vars, z_vars>>
not_sw == <<l_vars, k_vars, c_vars, f_vars, p_vars, o_vars, g_vars, m_vars, r_vars, z_vars>>
not_sm == <<l_vars, k_vars, c_vars, f_vars, p_vars, w_vars, o_vars, g_vars, r_vars, z_vars>>
not_lf == <<s_vars, k_vars, c_vars, p_vars, w_vars, o_vars, g_vars, m_vars, r_vars, z_vars>>
not_z == <<l_vars, s_vars, k_vars, c_vars, f_vars, p_vars, w_vars, o_vars, g_vars, m_vars,
          r_vars>>
not_lr == <<s_vars, k_vars, c_vars, f_vars, p_vars, w_vars, o_vars, g_vars, m_vars, z_vars>>

(***************************************************************************)
(* lsnp.py                                                                 *)
(***************************************************************************)
MAX_RETRIES == 3
TOKEN_DURATION == 3600

\* bounds of the lsnp model
MaxCalls == 1
MaxQueue == 2
MaxFollowers == 1

Nodes == {"a", "b"}
IpOf(n) ==
  CASE n = "a" -> "ip_a" [] n = "b" -> "ip_b" [] n = "c" -> "ip_c" [] OTHER -> "ip_x"
NodeIps == {IpOf(n) : n \in Nodes}
MsgIds == {"m1"}
GameIds == {"g1"}
\* the nodes whose user types commands
Senders == {"a"}
TokenNums == {1}
TimePoints == {0, TOKEN_DURATION + 1}

None == "none"
NoToken == [scope |-> None, n |-> 0]
Tok(scope, n) == [scope |-> scope, n |-> n]

\* A datagram: the transport addresses (src, dst) and the headers that
\* extract_field reads; a header that is absent is None.  term: the text ends
\* with the blank line.  from_id, from_ip: the two sides of "@" in FROM.
\* user, name: USER_ID and DISPLAY_NAME.  pos, turn: int(POS), int(TURN).
NoMsg ==
  [type |-> None, src |-> None, dst |-> None, from_id |-> None, from_ip |-> None,
   to |-> None, user |-> None, name |-> None, token |-> NoToken, msgid |-> None,
   gameid |-> None, player_x |-> None, player_o |-> None, pos |-> None,
   turn |-> None, group_id |-> None, term |-> FALSE]

LMsg(type, src, dst) ==
  [NoMsg EXCEPT !.type = type, !.src = src, !.dst = dst, !.term = TRUE]

create_token(tks, token, now) ==
  (token :> [scope |-> token.scope, expiry |-> now + TOKEN_DURATION,
             revoked |-> FALSE]) @@ tks

validate_token(tks, token, required_scope, now) ==
  /\ token \in DOMAIN tks
  /\ ~(tks[token].revoked \/ tks[token].expiry < now)
  /\ tks[token].scope = required_scope

\* the scopes dict of listen_loop
ScopeOf(type) ==
  CASE type = "POST" -> "chat"
    [] type = "DM" -> "dm"
    [] type = "FOLLOW" -> "follow"
    [] type = "LIKE" -> "like"
    [] type = "FILE_OFFER" -> "file"
    [] type = "FILE_CHUNK" -> "file"
    [] type = "TICTACTOE_MOVE" -> "game"
    [] type = "GROUP_MESSAGE" -> "group"
    [] OTHER -> None

send_ack(msgid, me, dest_ip) ==
  [LMsg("ACK", IpOf(me), dest_ip) EXCEPT !.msgid = msgid]

\* the checks of one listen_loop iteration: TRUE when the datagram is queued
lsnp_accepts(p, d) ==
  /\ d.term
  /\ d.type # None
  /\ ~(d.from_ip # None /\ d.from_ip # d.src)
  /\ ~(/\ ScopeOf(d.type) # None
       /\ d.token # NoToken
       /\ ~validate_token(tokens[p], d.token, ScopeOf(d.type), l_now))

IsAckFor(m, msg_id) == m.type = "ACK" /\ m.msgid = msg_id

HasAck(q, msg_id) == \E i \in 1..Len(q) : IsAckFor(q[i], msg_id)

InCall(p) == swr[p].pc \in {"loop", "wait"}

\* the call is in progress and the ACK_TIMEOUT of its last attempt has not expired
InTime(p) ==
  \/ swr[p].pc = "wait"
  \/ swr[p].pc = "loop" /\ swr[p].retries < MAX_RETRIES

lsnp_listen_loop(p) ==
  /\ running[p]
  /\ \E d \in l_net :
       /\ d.dst = IpOf(p)
       /\ Len(message_queue[p]) < MaxQueue
       /\ LET ok == lsnp_accepts(p, d)
              ack == ok /\ d.msgid # None
              out == IF ack /\ d.src \in NodeIps
                       THEN {send_ack(d.msgid, p, d.src)} ELSE {}
          IN /\ l_net' = (l_net \ {d}) \cup out
             /\ message_queue' = [message_queue EXCEPT ![p] =
                                    IF ok THEN Append(@, d) ELSE @]
             /\ ackGot' = [ackGot EXCEPT ![p] =
                             @ \/ (ok /\ InTime(p) /\ IsAckFor(d, swr[p].msg_id))]
  /\ UNCHANGED <<not_l, tokens, games, peers, swr, running, l_now, nsent, ncalls>>

\* handle_profile: the peers table of the receiving node after a PROFILE
handle_profile(prs, d, sender_ip, now) ==
  IF d.user = None THEN prs
  ELSE IF d.user \in DOMAIN prs
    THEN [prs EXCEPT ![d.user] = [@ EXCEPT !.last_seen = now, !.ip = sender_ip]]
    ELSE (d.user :> [ip |-> sender_ip,
                     display_name |-> IF d.name = None THEN "Unknown" ELSE d.name,
                     avatar |-> "",
                     last_seen |-> now]) @@ prs

\* handle_profile: the test that is followed by log("Updated peer: ...");
\* the AVATAR header is absent, so avatar is ""
profile_logs_update(prs, d) ==
  /\ d.user # None
  /\ d.user \in DOMAIN prs
  /\ \/ prs[d.user].avatar # ""
     \/ prs[d.user].display_name # (IF d.name = None THEN "Unknown" ELSE d.name)

\* handle_profile raises KeyError: the record of the known id was made by
\* the PONG branch and has no "avatar"
profile_raises(prs, d) ==
  /\ d.user # None
  /\ d.user \in DOMAIN prs
  /\ "avatar" \notin DOMAIN prs[d.user]

\* the PONG branch of process_messages:
\* peers.setdefault(user, {})["ip"] = ip
handle_pong(prs, d) ==
  IF d.user = None THEN prs
  ELSE IF d.user \in DOMAIN prs THEN [prs EXCEPT ![d.user].ip = d.src]
  ELSE (d.user :> [ip |-> d.src]) @@ prs

\* handle_ping: the PONG sent back
handle_ping(d, me) ==
  [LMsg("PONG", IpOf(me), d.src) EXCEPT !.user = me]

EmptyBoard == [r \in 0..2 |-> [c \in 0..2 |-> None]]

NewGame(player_x, player_o) ==
  [player_x |-> player_x, player_o |-> player_o, board |-> EmptyBoard,
   turn |-> 1, moves |-> <<>>, status |-> "active"]

\* handle_invite that starts the session afresh on every invite
handle_invite_reset(gms, d) ==
  [g \in DOMAIN gms \cup {d.gameid} |->
     IF g = d.gameid THEN NewGame(d.player_x, d.player_o) ELSE gms[g]]

\* handle_invite: the games table of the receiving node after an invite
handle_invite(gms, d) ==
  IF d.gameid \in DOMAIN gms THEN gms
  ELSE (d.gameid :> NewGame(d.player_x, d.player_o)) @@ gms

\* handle_move: the games table of the receiving node (USER_ID me) after a
\* TICTACTOE_MOVE whose POS is in 0..8
handle_move(gms, d, me) ==
  IF d.gameid \notin DOMAIN gms THEN gms
  ELSE LET g == gms[d.gameid]
           row == d.pos \div 3
           col == d.pos % 3
           symbol == IF me = g.player_x THEN "O" ELSE "X"
       IN IF d.turn <= Len(g.moves) THEN gms
          ELSE [gms EXCEPT ![d.gameid] =
                  [g EXCEPT !.board[row][col] = symbol,
                            !.moves = Append(@, <<d.turn, d.pos, "opponent">>),
                            !.turn = d.turn + 1]]

RECURSIVE dispatch_all(_, _, _, _)
\* the for loop of process_messages over queue_copy: the tables (st.peers,
\* st.games) after every message was dispatched, the datagrams sent
\* (st.out), and whether the thread is still alive (an exception in a
\* handler ends it, nothing catches it).  DM, POST and ACK only print; an
\* ACK is "handled in send_with_retry".
dispatch_all(st, q, now, me) ==
  IF q = <<>> \/ ~st.alive THEN st
  ELSE LET m == Head(q)
           st1 == CASE m.type = "PROFILE" ->
                         IF profile_raises(st.peers, m)
                           THEN [st EXCEPT !.alive = FALSE]
                           ELSE [st EXCEPT !.peers = handle_profile(@, m, m.src, now)]
                     [] m.type = "PING" ->
                         [st EXCEPT !.out = @ \cup {handle_ping(m, me)}]
                     [] m.type = "PONG" ->
                         [st EXCEPT !.peers = handle_pong(@, m)]
                     [] m.type = "TICTACTOE_INVITE" ->
                         [st EXCEPT !.games = handle_invite(@, m)]
                     [] m.type = "TICTACTOE_MOVE" ->
                         [st EXCEPT !.games = handle_move(@, m, me)]
                     [] OTHER -> st
       IN dispatch_all(st1, Tail(q), now, me)

\* process_messages: under message_lock copy and clear the queue, then
\* dispatch the copy
process_messages(p) ==
  /\ running[p]
  /\ f_alive
  /\ message_queue[p] # <<>>
  /\ message_queue' = [message_queue EXCEPT ![p] = <<>>]
  /\ LET st == dispatch_all([peers |-> peers[p], games |-> games[p], out |-> {},
                             alive |-> TRUE],
                            message_queue[p], l_now, p)
     IN /\ peers' = [peers EXCEPT ![p] = st.peers]
        /\ games' = [games EXCEPT ![p] = st.games]
        /\ l_net' = l_net \cup st.out
        /\ f_alive' = st.alive
  /\ UNCHANGED <<not_lf, received_chunks, f_files, f_completions, tokens, swr,
                 running, l_now, nsent, ackGot, ncalls>>

\* the head of send_with_retry: create_token, the TOKEN and MSGID headers,
\* retries = 0
send_with_retry(p, msg, dest_ip, msg_id, scope, n) ==
  /\ tokens' = [tokens EXCEPT ![p] = create_token(@, Tok(scope, n), l_now)]
  /\ swr' = [swr EXCEPT ![p] =
               [pc |-> "loop",
                msg |-> [msg EXCEPT !.token = Tok(scope, n), !.msgid = msg_id],
                dest_ip |-> dest_ip, msg_id |-> msg_id, retries |-> 0,
                result |-> None]]
  /\ nsent' = [nsent EXCEPT ![p] = 0]
  /\ ackGot' = [ackGot EXCEPT ![p] = HasAck(message_queue[p], msg_id)]
  /\ ncalls' = ncalls + 1

\* the main thread is at its prompt and reads a command
AtPrompt(p) ==
  /\ running[p]
  /\ swr[p].pc \in {"idle", "done"}
  /\ ncalls < MaxCalls

\* send_dm up to the first test of send_with_retry's loop
send_dm(p) ==
  /\ AtPrompt(p)
  /\ UNCHANGED not_l
  /\ \E to_user \in (Nodes \ {p}) \cup {"z"}, n \in TokenNums, msg_id \in MsgIds :
       IF to_user \notin DOMAIN peers[p]
         THEN UNCHANGED l_vars
         ELSE LET dest_ip == peers[p][to_user].ip
                  msg == [LMsg("DM", IpOf(p), dest_ip) EXCEPT
                            !.from_id = p, !.from_ip = IpOf(p), !.to = to_user]
              IN /\ send_with_retry(p, msg, dest_ip, msg_id, "dm", n)
                 /\ UNCHANGED <<l_net, message_queue, games, peers, running,
                                l_now>>

\* start_game up to the first test of send_with_retry's loop
start_game(p) ==
  /\ AtPrompt(p)
  /\ UNCHANGED not_l
  /\ \E invite_to \in (Nodes \ {p}) \cup {"z"}, gameid \in GameIds, n \in TokenNums,
        msg_id \in MsgIds :
       IF invite_to \notin DOMAIN peers[p]
         THEN UNCHANGED l_vars
         ELSE LET dest_ip == peers[p][invite_to].ip
                  msg == [LMsg("TICTACTOE_INVITE", IpOf(p), dest_ip) EXCEPT
                            !.gameid = gameid, !.player_x = p,
                            !.player_o = invite_to]
              IN /\ games' = [games EXCEPT ![p] =
                                (gameid :> NewGame(p, invite_to)) @@ @]
                 /\ send_with_retry(p, msg, dest_ip, msg_id, "game", n)
                 /\ UNCHANGED <<l_net, message_queue, peers, running, l_now>>

\* send_with_retry_loop with the loop test off by one (retries <= MAX_RETRIES)
send_with_retry_loop_le(p) ==
  /\ swr[p].pc = "loop"
  /\ IF swr[p].retries <= MAX_RETRIES /\ running[p]
       THEN /\ l_net' = l_net \cup {swr[p].msg}
            /\ nsent' = [nsent EXCEPT ![p] = @ + 1]
            /\ swr' = [swr EXCEPT ![p].pc = "wait"]
       ELSE /\ swr' = [swr EXCEPT ![p].pc = "done", ![p].result = "False"]
            /\ UNCHANGED <<l_net, nsent>>
  /\ UNCHANGED <<not_l, message_queue, tokens, games, peers, running, l_now, ackGot,
                 ncalls>>

\* send_with_retry: the test of the while loop, then send_udp, or the
\* final return False
send_with_retry_loop(p) ==
  /\ swr[p].pc = "loop"
  /\ IF swr[p].retries < MAX_RETRIES /\ running[p]
       THEN /\ l_net' = l_net \cup {swr[p].msg}
            /\ nsent' = [nsent EXCEPT ![p] = @ + 1]
            /\ swr' = [swr EXCEPT ![p].pc = "wait"]
       ELSE /\ swr' = [swr EXCEPT ![p].pc = "done", ![p].result = "False"]
            /\ UNCHANGED <<l_net, nsent>>
  /\ UNCHANGED <<not_l, message_queue, tokens, games, peers, running, l_now,
                 ackGot, ncalls>>

RemoveAt(q, i) == SubSeq(q, 1, i - 1) \o SubSeq(q, i + 1, Len(q))

FirstAck(q, msg_id) ==
  CHOOSE i \in 1..Len(q) :
    /\ IsAckFor(q[i], msg_id)
    /\ \A j \in 1..(i - 1) : ~IsAckFor(q[j], msg_id)

\* send_with_retry: a scan of message_queue under message_lock finds the ACK
send_with_retry_acked(p) ==
  /\ swr[p].pc = "wait"
  /\ HasAck(message_queue[p], swr[p].msg_id)
  /\ message_queue' = [message_queue EXCEPT ![p] =
                         RemoveAt(@, FirstAck(@, swr[p].msg_id))]
  /\ swr' = [swr EXCEPT ![p].pc = "done", ![p].result = "True"]
  /\ UNCHANGED <<not_l, l_net, tokens, games, peers, running, l_now, 
                 nsent, ackGot, ncalls>>

\* send_with_retry: the last scan of an attempt finds no ACK and ACK_TIMEOUT
\* has passed
send_with_retry_timeout(p) ==
  /\ swr[p].pc = "wait"
  /\ ~HasAck(message_queue[p], swr[p].msg_id)
  /\ swr' = [swr EXCEPT ![p].pc = "loop", ![p].retries = @ + 1]
  /\ UNCHANGED <<not_l, l_net, message_queue, tokens, games, peers, running,
                 l_now, nsent, ackGot, ncalls>>

\* UDP: a datagram in flight is lost
lsnp_lose ==
  /\ \E d \in l_net : l_net' = l_net \ {d}
  /\ UNCHANGED <<not_l, message_queue, tokens, games, peers, swr, running, l_now,
                 nsent, ackGot, ncalls>>

lsnp_tick ==
  /\ \E t \in TimePoints : t > l_now /\ l_now' = t
  /\ UNCHANGED <<not_l, l_net, message_queue, tokens, games, peers, swr, running,
                 nsent, ackGot, ncalls>>

\* Datagrams a host outside the model (at ip_x) may send to node b: a DM with
\* a MSGID and no TOKEN, whose FROM names x@ip_x or a@ip_a.
Injected ==
  {[LMsg("DM", "ip_x", IpOf("b")) EXCEPT !.from_id = fid, !.from_ip = IpOf(fid),
                                        !.to = "b", !.msgid = "m1"] :
     fid \in {"a", "x"}}

\* one such datagram is in flight at a time
lsnp_inject ==
  /\ l_net \cap Injected = {}
  /\ \E d \in Injected : l_net' = l_net \cup {d}
  /\ UNCHANGED <<not_l, message_queue, tokens, games, peers, swr, running, l_now,
                 nsent, ackGot, ncalls>>

\* peers after every node has handled one PROFILE broadcast of every node
\* (its own included), all at time 0
DiscoveredPeers ==
  [u \in Nodes |-> [ip |-> IpOf(u), display_name |-> u, avatar |-> "",
                    last_seen |-> 0]]

LsnpIdle ==
  /\ l_net = {}
  /\ message_queue = [p \in Nodes |-> <<>>]
  /\ tokens = [p \in Nodes |-> <<>>]
  /\ games = [p \in Nodes |-> <<>>]
  /\ peers = [p \in Nodes |-> DiscoveredPeers]
  /\ swr = [p \in Nodes |-> [pc |-> "idle", msg |-> NoMsg, dest_ip |-> None,
                             msg_id |-> None, retries |-> 0, result |-> None]]
  /\ running = [p \in Nodes |-> TRUE]
  /\ l_now = 0
  /\ nsent = [p \in Nodes |-> 0]
  /\ ackGot = [p \in Nodes |-> FALSE]
  /\ ncalls = 0


(***************************************************************************)
(* server.py                                                               *)
(***************************************************************************)
HEARTBEAT_TIMEOUT == 60
DEFAULT_TTL == 3600

Users == {"a", "b"}
Ports == {"p1"}
SrvTimes == {0, HEARTBEAT_TIMEOUT + 1}

\* An identity header (USER_ID or FROM): "id" or "id@ip"; absent: NoId.
NoId == [id |-> None, ip |-> None]
Ident(id, ip) == [id |-> id, ip |-> ip]

\* Header text that the server parses further (TOKEN, TTL) is a sequence of
\* characters; "|" is the separator of TOKEN.  The words of the protocol
\* ("broadcast", "chat", a user id) stand for themselves as one character.
Digits == {"0", "1", "2", "3", "4", "5", "6", "7", "8", "9"}
digit_value(c) ==
  CASE c = "0" -> 0 [] c = "1" -> 1 [] c = "2" -> 2 [] c = "3" -> 3 [] c = "4" -> 4
    [] c = "5" -> 5 [] c = "6" -> 6 [] c = "7" -> 7 [] c = "8" -> 8 [] c = "9" -> 9
Absent == [present |-> FALSE, val |-> <<>>]
Text(val) == [present |-> TRUE, val |-> val]

\* the headers of a datagram of the server protocol
NoHeaders ==
  [type |-> None, user |-> NoId, from |-> NoId, to |-> None, token |-> Absent,
   ttl |-> Absent, name |-> None, status |-> None, gameid |-> None,
   plist |-> {}]

Dgram(ip, port, h) == [ip |-> ip, port |-> port, h |-> h]
NoInput == Dgram(None, None, NoHeaders)

RECURSIVE split(_, _)
\* str.split(sep): the fields of a text between the separators
split(txt, sep) ==
  IF \E i \in 1..Len(txt) : txt[i] = sep
    THEN LET i == CHOOSE k \in 1..Len(txt) :
                    txt[k] = sep /\ \A j \in 1..(k - 1) : txt[j] # sep
         IN <<SubSeq(txt, 1, i - 1)>> \o split(SubSeq(txt, i + 1, Len(txt)), sep)
    ELSE <<txt>>

\* int(text) raises ValueError
int_fails(txt) == txt = <<>> \/ \E i \in 1..Len(txt) : txt[i] \notin Digits

RECURSIVE int(_)
\* int(text) of a text of decimal digits
int(txt) ==
  IF Len(txt) = 0 THEN 0
  ELSE 10 * int(SubSeq(txt, 1, Len(txt) - 1)) + digit_value(txt[Len(txt)])

\* sender_id_full = headers.get("USER_ID") or headers.get("FROM"), and the
\* part before "@"
sender_id_of(h) == IF h.user.id # None THEN h.user.id ELSE h.from.id

Contains(seq, x) == \E i \in 1..Len(seq) : seq[i] = x

\* list.remove(x) of a list that holds x: the first occurrence goes
Remove(seq, x) ==
  LET i == CHOOSE k \in 1..Len(seq) : seq[k] = x /\ \A j \in 1..(k - 1) : seq[j] # x
  IN SubSeq(seq, 1, i - 1) \o SubSeq(seq, i + 1, Len(seq))

SendTo(cl, uid, h) == Dgram(cl[uid].ip, cl[uid].port, h)

\* A branch of handle_message yields the clients table and the datagrams
\* passed to send_udp when the call ends (by return, by falling through, or by
\* an exception that the outer except swallows).
Result(cl, out) == [clients |-> cl, out |-> out]

\* post_token_ok with the expiry test off by one (time.time() >= expiry)
post_token_ok_ge(h, sender_id, now) ==
  LET token == h.token.val
      parts == split(token, "|")
  IN /\ ~(h.ttl.present /\ int_fails(h.ttl.val))
     /\ Len(parts) = 3
     /\ parts[1] = <<sender_id>>
     /\ parts[3] = <<"broadcast">>
     /\ ~int_fails(parts[2])
     /\ LET ttl == IF h.ttl.present THEN int(h.ttl.val) ELSE DEFAULT_TTL
            timestamp == int(parts[2]) - ttl
        IN ~(now >= timestamp + ttl)

\* the POST branch's checks of TOKEN and TTL: TRUE when the fan-out loop runs
post_token_ok(h, sender_id, now) ==
  LET token == h.token.val
      parts == split(token, "|")
  IN /\ ~(h.ttl.present /\ int_fails(h.ttl.val))
     /\ Len(parts) = 3
     /\ parts[1] = <<sender_id>>
     /\ parts[3] = <<"broadcast">>
     /\ ~int_fails(parts[2])
     /\ LET ttl == IF h.ttl.present THEN int(h.ttl.val) ELSE DEFAULT_TTL
            timestamp == int(parts[2]) - ttl
        IN ~(now > timestamp + ttl)

handle_REGISTER(cl, d, sender_id, now) ==
  LET cl1 == (sender_id :>
                [ip |-> d.ip, port |-> d.port,
                 name |-> IF d.h.name = None THEN "Anonymous" ELSE d.h.name,
                 status |-> IF d.h.status = None THEN "" ELSE d.h.status,
                 last_seen |-> now, follows |-> <<>>, followers |-> <<>>]) @@ cl
      welcome == [NoHeaders EXCEPT !.type = "WELCOME",
                                   !.plist = DOMAIN cl1 \ {sender_id}]
      notify == [NoHeaders EXCEPT !.type = "PEER_JOINED",
                                  !.user = Ident(sender_id, None),
                                  !.name = d.h.name]
  IN IF d.h.name = None
       THEN Result(cl1, {Dgram(d.ip, d.port, welcome)})
       ELSE Result(cl1, {Dgram(d.ip, d.port, welcome)} \cup
                        {SendTo(cl1, uid, notify) : uid \in DOMAIN cl1 \ {sender_id}})

handle_HEARTBEAT(cl, d, sender_id, now) ==
  IF sender_id \in DOMAIN cl
    THEN Result([cl EXCEPT ![sender_id] =
                   [@ EXCEPT !.last_seen = now, !.ip = d.ip, !.port = d.port]], {})
    ELSE Result(cl, {})

\* handle_DM passing a DM for an unknown target on to every other client
handle_DM_broadcast(cl, d, sender_id, now) ==
  IF d.h.to \in DOMAIN cl
    THEN Result(cl, {SendTo(cl, d.h.to, d.h)})
    ELSE Result(cl, {SendTo(cl, uid, d.h) : uid \in DOMAIN cl \ {sender_id}})

handle_DM(cl, d, sender_id, now) ==
  IF d.h.to \in DOMAIN cl
    THEN Result(cl, {SendTo(cl, d.h.to, d.h)})
    ELSE Result(cl, {})

handle_POST(cl, d, sender_id, now) ==
  IF sender_id \notin DOMAIN cl THEN Result(cl, {})
  ELSE IF ~post_token_ok(d.h, sender_id, now) THEN Result(cl, {})
  ELSE Result(cl, {SendTo(cl, uid, d.h) :
                     uid \in {u \in DOMAIN cl : Contains(cl[u].follows, sender_id)}})

\* handle_FOLLOW that notifies the target even when the sender already
\* follows it
handle_FOLLOW_renotify(cl, d, sender_id, now) ==
  LET target == d.h.to
  IN IF target = None \/ target = sender_id THEN Result(cl, {})
     ELSE IF target \notin DOMAIN cl THEN Result(cl, {})
     ELSE IF sender_id \notin DOMAIN cl THEN Result(cl, {})
     ELSE LET cl1 == IF Contains(cl[sender_id].follows, target) THEN cl
                     ELSE [cl EXCEPT ![sender_id].follows = Append(@, target),
                                     ![target].followers = Append(@, sender_id)]
              notify == [NoHeaders EXCEPT !.type = "FOLLOW_NOTIFY",
                                          !.user = Ident(sender_id, None),
                                          !.name = cl1[sender_id].name]
          IN Result(cl1, {SendTo(cl1, target, notify)})

handle_FOLLOW(cl, d, sender_id, now) ==
  LET target == d.h.to
  IN IF target = None \/ target = sender_id THEN Result(cl, {})
     ELSE IF target \notin DOMAIN cl THEN Result(cl, {})
     ELSE IF sender_id \notin DOMAIN cl THEN Result(cl, {})
     ELSE IF Contains(cl[sender_id].follows, target) THEN Result(cl, {})
     ELSE LET cl1 == [cl EXCEPT ![sender_id].follows = Append(@, target),
                                ![target].followers = Append(@, sender_id)]
              notify == [NoHeaders EXCEPT !.type = "FOLLOW_NOTIFY",
                                          !.user = Ident(sender_id, None),
                                          !.name = cl1[sender_id].name]
          IN Result(cl1, {SendTo(cl1, target, notify)})

handle_UNFOLLOW(cl, d, sender_id, now) ==
  LET target == d.h.to
  IN IF target = None \/ target = sender_id THEN Result(cl, {})
     ELSE IF sender_id \notin DOMAIN cl \/ target \notin DOMAIN cl THEN Result(cl, {})
     ELSE IF ~Contains(cl[sender_id].follows, target) THEN Result(cl, {})
     ELSE LET cl1 == [cl EXCEPT ![sender_id].follows = Remove(@, target)]
          IN IF ~Contains(cl1[target].followers, sender_id)
               THEN Result(cl1, {})
               ELSE LET cl2 == [cl1 EXCEPT ![target].followers = Remove(@, sender_id)]
                        notify == [NoHeaders EXCEPT
                                     !.type = "UNFOLLOW_NOTIFY",
                                     !.user = Ident(sender_id, None),
                                     !.name = cl2[sender_id].name]
                    IN Result(cl2, {SendTo(cl2, target, notify)})

handle_PROFILE(cl, d, sender_id, now) ==
  LET cl1 == IF sender_id \in DOMAIN cl
               THEN [cl EXCEPT ![sender_id] =
                       [@ EXCEPT !.name = d.h.name, !.status = d.h.status,
                                 !.last_seen = now]]
               ELSE cl
  IN Result(cl1, {SendTo(cl1, uid, d.h) : uid \in DOMAIN cl1})

handle_TICTACTOE_INVITE(cl, d, sender_id, now) ==
  LET target == d.h.to
      invite_msg == [NoHeaders EXCEPT !.type = "TICTACTOE_INVITE",
                                      !.gameid = d.h.gameid,
                                      !.from = Ident(sender_id, d.ip),
                                      !.to = target]
  IN IF d.h.gameid = None \/ target = None THEN Result(cl, {})
     ELSE IF target \in DOMAIN cl THEN Result(cl, {SendTo(cl, target, invite_msg)})
     ELSE Result(cl, {})

handle_other(cl, d, sender_id, now) ==
  Result(cl, {SendTo(cl, uid, d.h) : uid \in DOMAIN cl \ {sender_id}})

\* handle_message from the decoded headers on
handle_message_result(cl, d, now) ==
  LET msg_type == d.h.type
      sender_id == sender_id_of(d.h)
  IN IF msg_type = None \/ sender_id = None THEN Result(cl, {})
     ELSE CASE msg_type = "REGISTER" -> handle_REGISTER(cl, d, sender_id, now)
            [] msg_type = "HEARTBEAT" -> handle_HEARTBEAT(cl, d, sender_id, now)
            [] msg_type = "DM" -> handle_DM(cl, d, sender_id, now)
            [] msg_type = "POST" -> handle_POST(cl, d, sender_id, now)
            [] msg_type = "FOLLOW" -> handle_FOLLOW(cl, d, sender_id, now)
            [] msg_type = "UNFOLLOW" -> handle_UNFOLLOW(cl, d, sender_id, now)
            [] msg_type = "PROFILE" -> handle_PROFILE(cl, d, sender_id, now)
            [] msg_type = "TICTACTOE_INVITE" ->
                 handle_TICTACTOE_INVITE(cl, d, sender_id, now)
            [] OTHER -> handle_other(cl, d, sender_id, now)

\* handle_message ends in its outer except: the FOLLOW branch reads
\* clients[sender_id] of an unregistered sender (KeyError), the UNFOLLOW
\* branch removes the sender from a followers list that lacks it (ValueError),
\* the POST branch calls int on a TTL that is no integer (ValueError)
handle_message_raises(cl, d) ==
  LET msg_type == d.h.type
      sender_id == sender_id_of(d.h)
      target == d.h.to
  IN /\ msg_type # None
     /\ sender_id # None
     /\ \/ /\ msg_type = "FOLLOW"
           /\ target # None /\ target # sender_id
           /\ target \in DOMAIN cl
           /\ sender_id \notin DOMAIN cl
        \/ /\ msg_type = "UNFOLLOW"
           /\ target # None /\ target # sender_id
           /\ sender_id \in DOMAIN cl /\ target \in DOMAIN cl
           /\ Contains(cl[sender_id].follows, target)
           /\ ~Contains(cl[target].followers, sender_id)
        \/ /\ msg_type = "POST"
           /\ sender_id \in DOMAIN cl
           /\ d.h.ttl.present /\ int_fails(d.h.ttl.val)

RECURSIVE Without(_, _)
\* a list without the entries that are not in the set keep
Without(seq, keep) ==
  IF seq = <<>> THEN <<>>
  ELSE IF Head(seq) \in keep THEN <<Head(seq)>> \o Without(Tail(seq), keep)
  ELSE Without(Tail(seq), keep)

\* cleanup_sweep that also takes the evicted ids out of the follows and
\* followers lists of the clients it keeps
cleanup_sweep_scrub(cl, now) ==
  LET kept == {uid \in DOMAIN cl : ~(now - cl[uid].last_seen > HEARTBEAT_TIMEOUT)}
  IN [uid \in kept |->
        [cl[uid] EXCEPT !.follows = Without(@, kept),
                        !.followers = Without(@, kept)]]

\* cleanup_sweep with the test now - last_seen >= HEARTBEAT_TIMEOUT
cleanup_sweep_ge(cl, now) ==
  LET kept == {uid \in DOMAIN cl : ~(now - cl[uid].last_seen >= HEARTBEAT_TIMEOUT)}
  IN [uid \in kept |-> cl[uid]]

\* cleanup_loop: one sweep
cleanup_sweep(cl, now) ==
  LET kept == {uid \in DOMAIN cl : ~(now - cl[uid].last_seen > HEARTBEAT_TIMEOUT)}
  IN [uid \in kept |-> cl[uid]]

\* The datagrams that reach the server.  A client sends from its own address;
\* a host at ip_x sends DMs that name a client in FROM.
TokenTexts(u) ==
  {<<u, "|", "6", "0", "|", "broadcast">>,      \* u|60|broadcast
   <<"z", "|", "6", "0", "|", "broadcast">>,    \* another subject
   <<u, "|", "6", "0", "|", "chat">>,           \* another scope
   <<u, "|", "x", "|", "broadcast">>,           \* expiry is no integer
   <<u, "|", "0", "|", "broadcast">>,           \* u|0|broadcast
   <<u, "|", "6", "0">>,                        \* two fields
   <<u, "|", "6", "0", "|", "broadcast", "|", "x">>}   \* four fields
TtlTexts == {Absent, Text(<<"9">>), Text(<<"x">>)}

H(type) == [NoHeaders EXCEPT !.type = type]

SrvInputs ==
  LET own(u, h) == {Dgram(IpOf(u), pt, h) : pt \in Ports}
  IN UNION {
       UNION {own(u, [H("REGISTER") EXCEPT !.user = Ident(u, None), !.name = n])
                : u \in Users, n \in {"n1", None}},
       UNION {own(u, [H("HEARTBEAT") EXCEPT !.user = Ident(u, None)]) : u \in Users},
       UNION {{Dgram(ip, "p1", [H("DM") EXCEPT !.from = Ident(u, IpOf(u)),
                                               !.to = t])
                 : ip \in {IpOf(u), "ip_x"}}
                : u \in Users, t \in Users \cup {"z"}},
       UNION {own("a", [H("POST") EXCEPT !.from = Ident("a", IpOf("a")),
                                         !.token = tk, !.ttl = ttl])
                : tk \in {Absent} \cup {Text(t) : t \in TokenTexts("a")},
                  ttl \in TtlTexts},
       UNION {own(u, [H(ty) EXCEPT !.from = Ident(u, IpOf(u)), !.to = t])
                : u \in Users, t \in Users \cup {None},
                  ty \in {"FOLLOW", "UNFOLLOW"}},
       UNION {own(u, [H("PROFILE") EXCEPT !.user = Ident(u, IpOf(u)),
                                          !.name = "n1", !.status = "s1"])
                : u \in Users},
       UNION {own("a", [H("TICTACTOE_INVITE") EXCEPT !.from = Ident("a", IpOf("a")),
                                                     !.to = t, !.gameid = g])
                : t \in {"b", "z"}, g \in {"g1", None}},
       own("a", [H("FILE_OFFER") EXCEPT !.from = Ident("a", IpOf("a")), !.to = "b"])
     }

\* listen_loop hands one datagram of the set inputs to handle_message, which
\* runs to its end
handle_message_from(inputs) ==
  /\ \E d \in inputs :
       LET r == handle_message_result(clients, d, s_now)
       IN /\ \A uid \in DOMAIN r.clients :
               Len(r.clients[uid].followers) <= MaxFollowers
          /\ clients' = r.clients
          /\ s_out' = r.out
          /\ s_in' = d
  /\ UNCHANGED <<s_now, not_s>>

handle_message == handle_message_from(SrvInputs)

cleanup_loop ==
  /\ clients' = cleanup_sweep(clients, s_now)
  /\ s_in' = NoInput
  /\ s_out' = {}
  /\ UNCHANGED <<s_now, not_s>>

srv_tick ==
  /\ \E t \in SrvTimes : t > s_now /\ s_now' = t
  /\ s_in' = NoInput
  /\ s_out' = {}
  /\ UNCHANGED <<clients, not_s>>

\* ---- cleanup_loop with its schedule: a sweep, then sleep(CLEANUP_INTERVAL) ----
CLEANUP_INTERVAL == 60

\* bound: the clock of the scheduled server runs MaxSweepTicks half intervals
MaxSweepTicks == 5

SweepTimes == {k * (CLEANUP_INTERVAL \div 2) : k \in 0..MaxSweepTicks}

\* the clients of the scheduled server register and send heartbeats
SweepInputs ==
  {d \in SrvInputs : d.h.type \in {"REGISTER", "HEARTBEAT"} /\ d.h.name # None}

\* the sleep of cleanup_loop is over: one sweep
cleanup_loop_due ==
  /\ s_now = s_swept + CLEANUP_INTERVAL
  /\ clients' = cleanup_sweep(clients, s_now)
  /\ s_removed' = DOMAIN clients \ DOMAIN clients'
  /\ s_swept' = s_now
  /\ s_in' = NoInput
  /\ s_out' = {}
  /\ UNCHANGED <<s_now, not_sw>>

\* time passes, up to the end of cleanup_loop's sleep
sweep_tick ==
  /\ \E t \in SweepTimes :
       /\ t > s_now
       /\ t <= s_swept + CLEANUP_INTERVAL
       /\ s_now' = t
  /\ s_in' = NoInput
  /\ s_out' = {}
  /\ UNCHANGED <<clients, w_vars, not_sw>>

SweepIdle ==
  /\ s_swept = 0
  /\ s_removed = {}

NextSrvSweep ==
  \/ handle_message_from(SweepInputs)
  \/ cleanup_loop_due
  \/ sweep_tick

\* ---- handle_message step by step: with lock, the branch, its send_udp calls ----

\* the datagrams given to the thread: registrations, heartbeats, profiles, DMs
LockInputs ==
  {d \in SrvInputs : d.h.type \in {"REGISTER", "HEARTBEAT", "PROFILE", "DM"}}

\* a handle_message thread enters `with lock:` and runs its branch up to the
\* first send_udp
handle_message_lock ==
  /\ h_pc = "recv"
  /\ lock = None
  /\ \E d \in LockInputs :
       LET r == handle_message_result(clients, d, s_now)
       IN /\ clients' = r.clients
          /\ h_todo' = r.out
          /\ s_in' = d
  /\ s_out' = {}
  /\ lock' = "handle_message"
  /\ h_pc' = "locked"
  /\ UNCHANGED <<s_now, not_sm>>

\* the branch calls send_udp, which calls sock.sendto
handle_message_send_udp ==
  /\ h_pc = "locked"
  /\ h_todo # {}
  /\ h_pc' = "sendto"
  /\ UNCHANGED <<s_vars, lock, h_todo, not_sm>>

\* sock.sendto returns
handle_message_sendto ==
  /\ h_pc = "sendto"
  /\ \E o \in h_todo :
       /\ s_out' = s_out \cup {o}
       /\ h_todo' = h_todo \ {o}
  /\ h_pc' = "locked"
  /\ UNCHANGED <<clients, s_now, s_in, lock, not_sm>>

\* the end of the with block; messages_to_send is empty, so the loop after
\* it sends nothing
handle_message_unlock ==
  /\ h_pc = "locked"
  /\ h_todo = {}
  /\ lock' = None
  /\ h_pc' = "recv"
  /\ UNCHANGED <<s_vars, h_todo, not_sm>>

\* cleanup_loop takes the lock for its sweep
cleanup_loop_locked ==
  /\ lock = None
  /\ clients' = cleanup_sweep(clients, s_now)
  /\ UNCHANGED <<s_now, s_in, s_out, m_vars, not_sm>>

lock_tick ==
  /\ \E t \in SrvTimes : t > s_now /\ s_now' = t
  /\ UNCHANGED <<clients, s_in, s_out, m_vars, not_sm>>

LockIdle ==
  /\ lock = None
  /\ h_pc = "recv"
  /\ h_todo = {}

NextSrvLock ==
  \/ handle_message_lock
  \/ handle_message_send_udp
  \/ handle_message_sendto
  \/ handle_message_unlock
  \/ cleanup_loop_locked
  \/ lock_tick

SrvIdle ==
  /\ clients = <<>>
  /\ s_now = 0
  /\ s_in = NoInput
  /\ s_out = {}

(***************************************************************************)
(* The header codec.  A text is a sequence of characters.                  *)
(***************************************************************************)
MaxHeaders == 2

\* the keys and values that header lists are made of (no newline in any)
KeyTexts ==
  {<<"k">>, <<"j">>, <<"k", " ">>, <<"k", ":">>, <<>>}
ValueTexts ==
  {<<"v">>, <<" ", "v">>, <<"v", ":", "w">>, <<>>}

NL == "\n"
Whitespace == {" ", NL}

RECURSIVE lstrip(_)
lstrip(txt) ==
  IF txt # <<>> /\ Head(txt) \in Whitespace THEN lstrip(Tail(txt)) ELSE txt

RECURSIVE rstrip(_)
rstrip(txt) ==
  IF txt # <<>> /\ txt[Len(txt)] \in Whitespace
    THEN rstrip(SubSeq(txt, 1, Len(txt) - 1))
    ELSE txt

\* str.strip()
strip(txt) == rstrip(lstrip(txt))

\* str.endswith(suffix)
endswith(txt, suffix) ==
  /\ Len(txt) >= Len(suffix)
  /\ SubSeq(txt, Len(txt) - Len(suffix) + 1, Len(txt)) = suffix

\* str.splitlines(): the lines of a text; no empty line after a final newline
splitlines(txt) ==
  LET parts == split(txt, NL)
  IN IF parts[Len(parts)] = <<>> THEN SubSeq(parts, 1, Len(parts) - 1) ELSE parts

RECURSIVE join(_, _)
\* sep.join(lines)
join(lines, sep) ==
  IF Len(lines) = 0 THEN <<>>
  ELSE IF Len(lines) = 1 THEN lines[1]
  ELSE lines[1] \o <<sep>> \o join(Tail(lines), sep)

\* forward_message: one "k: v" line per header, joined by newlines
forward_message_text(headers) ==
  join([i \in 1..Len(headers) |-> headers[i][1] \o <<":", " ">> \o headers[i][2]],
       NL)

\* send_udp: the terminator is appended unless the text already ends with it
send_udp_text(data) ==
  IF endswith(data, <<NL, NL>>) THEN data ELSE data \o <<NL, NL>>

RECURSIVE header_loop(_, _)
\* for line in lines: if ':' in line: k, v = line.split(":", 1);
\* headers[k.strip()] = v.strip()
header_loop(lines, headers) ==
  IF Len(lines) = 0 THEN headers
  ELSE LET line == Head(lines)
       IN IF Contains(line, ":")
            THEN LET i == CHOOSE n \in 1..Len(line) :
                            line[n] = ":" /\ \A j \in 1..(n - 1) : line[j] # ":"
                     k == strip(SubSeq(line, 1, i - 1))
                     v == strip(SubSeq(line, i + 1, Len(line)))
                 IN header_loop(Tail(lines),
                                [x \in DOMAIN headers \cup {k} |->
                                   IF x = k THEN v ELSE headers[x]])
            ELSE header_loop(Tail(lines), headers)

\* the receiver: strip, terminator, non-blank stripped lines, header loop
parse_headers(data) ==
  LET raw0 == strip(data)
      raw == IF endswith(raw0, <<NL, NL>>) THEN raw0 ELSE raw0 \o <<NL, NL>>
      all == splitlines(raw)
      lines == SelectSeq([i \in 1..Len(all) |-> strip(all[i])],
                         LAMBDA line : line # <<>>)
  IN header_loop(lines, <<>>)

\* the dict that a header list with distinct keys stands for
dict_of(headers) ==
  [k \in {headers[i][1] : i \in 1..Len(headers)} |->
     headers[CHOOSE i \in 1..Len(headers) : headers[i][1] = k][2]]

\* the caller puts one more header into the dict
codec_add_header ==
  /\ k_pc = "build"
  /\ Len(k_headers) < MaxHeaders
  /\ \E k \in KeyTexts, v \in ValueTexts :
       /\ \A i \in 1..Len(k_headers) : k_headers[i][1] # k
       /\ k_headers' = Append(k_headers, <<k, v>>)
  /\ UNCHANGED <<k_text, k_parsed, k_pc, not_k>>

\* forward_message and the send_udp it calls
forward_message ==
  /\ k_pc = "build"
  /\ k_text' = send_udp_text(forward_message_text(k_headers))
  /\ k_pc' = "sent"
  /\ UNCHANGED <<k_headers, k_parsed, not_k>>

\* the receiver decodes the datagram into headers
codec_receive ==
  /\ k_pc = "sent"
  /\ k_parsed' = parse_headers(k_text)
  /\ k_pc' = "parsed"
  /\ UNCHANGED <<k_headers, k_text, not_k>>

CodecIdle ==
  /\ k_headers = <<>>
  /\ k_text = <<>>
  /\ k_parsed = <<>>
  /\ k_pc = "build"

NextCodec ==
  \/ codec_add_header
  \/ forward_message
  \/ codec_receive

(***************************************************************************)
(* File transfer: payloads and base64                                      *)
(***************************************************************************)
MaxChunks == 2
MaxCompletions == 2

FileIds == {"f1"}

\* the bytes of chunk i of the file being sent (chunks differ in content and
\* in length, none is empty)
Payload(i) == [j \in 1..((i % 3) + 1) |-> (40 * i + j) % 256]

RECURSIVE Concat(_)
\* the chunks of a sequence of byte strings, one after the other
Concat(chunks) ==
  IF Len(chunks) = 0 THEN <<>> ELSE Head(chunks) \o Concat(Tail(chunks))

\* base64 text is a sequence of 6-bit digits 0..63, with Pad for "="
Pad == 64

RECURSIVE b64encode(_)
\* base64.b64encode
b64encode(b) ==
  IF Len(b) = 0 THEN <<>>
  ELSE LET b2 == IF Len(b) >= 2 THEN b[2] ELSE 0
           b3 == IF Len(b) >= 3 THEN b[3] ELSE 0
           n == b[1] * 65536 + b2 * 256 + b3
           s1 == n \div 262144
           s2 == (n \div 4096) % 64
           s3 == (n \div 64) % 64
           s4 == n % 64
       IN IF Len(b) = 1 THEN <<s1, s2, Pad, Pad>>
          ELSE IF Len(b) = 2 THEN <<s1, s2, s3, Pad>>
          ELSE <<s1, s2, s3, s4>> \o b64encode(SubSeq(b, 4, Len(b)))

\* base64.b64decode raises binascii.Error (incorrect padding)
b64decode_fails(t) == Len(t) % 4 # 0

RECURSIVE b64decode(_)
\* base64.b64decode of a text of whole groups
b64decode(t) ==
  IF Len(t) = 0 THEN <<>>
  ELSE LET s3 == IF t[3] = Pad THEN 0 ELSE t[3]
           s4 == IF t[4] = Pad THEN 0 ELSE t[4]
           n == t[1] * 262144 + t[2] * 4096 + s3 * 64 + s4
           bytes == <<n \div 65536, (n \div 256) % 256, n % 256>>
           keep == IF t[3] = Pad THEN 1 ELSE IF t[4] = Pad THEN 2 ELSE 3
       IN SubSeq(bytes, 1, keep) \o b64decode(SubSeq(t, 5, Len(t)))

\* DATA that is not base64
BadData == <<1>>

(***************************************************************************)
(* client.py: the receiving side of a file transfer                        *)
(***************************************************************************)
FILE_TRANSFER_TIMEOUT == 300
COMPLETED_KEPT == 3600

ClientTimes == {0, FILE_TRANSFER_TIMEOUT + 1, COMPLETED_KEPT + 1}

\* the FILE_CHUNK datagrams that reach the client's socket: CHUNK_INDEX from
\* -1 (also the value when the header is absent) to MaxChunks, for a file id
\* that was offered or one that never was
Chunk(file_id, chunk_index, data) ==
  [file_id |-> file_id, chunk_index |-> chunk_index, data |-> data]

ClientChunks ==
  {Chunk(f, i, b64encode(Payload(i))) : f \in FileIds \cup {"f9"}, i \in -1..MaxChunks}
    \cup {Chunk(f, 0, BadData) : f \in FileIds}

NoChunkIn == Chunk(None, -1, <<>>)

NoSent == [m \in FileIds \X {"COMPLETE", "IGNORED"} |-> 0]

\* send_file_received
send_file_received(sent, file_id, status) ==
  [sent EXCEPT ![<<file_id, status>>] = @ + 1]

\* the chunk's index is one of the transfer's indices and its DATA decodes
InRange(files, d) ==
  /\ d.file_id \in DOMAIN files
  /\ d.chunk_index \in 0..(files[d.file_id].total_chunks - 1)
  /\ ~b64decode_fails(d.data)

\* bookkeeping of what reached the socket
Arrive(d) ==
  /\ c_arrived' = IF InRange(incoming_files, d)
                    THEN c_arrived \cup {<<d.file_id, d.chunk_index>>}
                    ELSE c_arrived
  /\ c_stray' = IF InRange(incoming_files, d)
                  THEN c_stray
                  ELSE c_stray \cup {d.file_id}

\* listen_loop, TYPE FILE_OFFER
client_FILE_OFFER ==
  /\ c_listening
  /\ \E file_id \in FileIds, total_chunks \in 0..MaxChunks :
       IF file_id \in DOMAIN incoming_files
            /\ incoming_files[file_id].status # "pending"
         THEN /\ c_listening' = FALSE
              /\ c_stray' = c_stray \cup {file_id}
              /\ UNCHANGED <<incoming_files, c_arrived>>
         ELSE /\ incoming_files' =
                   (file_id :> [total_chunks |-> total_chunks,
                                received_chunks |-> <<>>,
                                last_chunk_time |-> c_now,
                                status |-> "pending"]) @@ incoming_files
              /\ c_arrived' = {m \in c_arrived : m[1] # file_id}
              /\ c_stray' = c_stray \ {file_id}
              /\ UNCHANGED c_listening
  /\ c_in' = NoChunkIn
  /\ UNCHANGED <<downloads, c_sent, c_now, not_c>>

\* the FILE_CHUNK branch when the transfer is 'receiving' and the index is
\* new: the state of the transfer, the file written (if any), the
\* FILE_RECEIVED sent (if any), and whether the loop goes on
store_chunk(file_info, d, now) ==
  IF b64decode_fails(d.data)
    THEN [info |-> [file_info EXCEPT !.status = "failed"],
          written |-> FALSE, data |-> <<>>, goes_on |-> TRUE]
    ELSE
      LET received == (d.chunk_index :> b64decode(d.data)) @@ file_info.received_chunks
          info1 == [file_info EXCEPT !.received_chunks = received,
                                     !.last_chunk_time = now]
          total == file_info.total_chunks
      IN IF Cardinality(DOMAIN received) # total
           THEN [info |-> info1, written |-> FALSE, data |-> <<>>, goes_on |-> TRUE]
         ELSE IF \E i \in 0..(total - 1) : i \notin DOMAIN received
           THEN [info |-> [info1 EXCEPT !.status = "failed"],
                 written |-> FALSE, data |-> <<>>, goes_on |-> FALSE]
         ELSE [info |-> [info1 EXCEPT !.status = "complete"],
               written |-> TRUE,
               data |-> Concat([i \in 1..total |-> received[i - 1]]),
               goes_on |-> TRUE]

\* listen_loop, TYPE FILE_CHUNK
client_FILE_CHUNK ==
  /\ c_listening
  /\ \E d \in ClientChunks :
       /\ Arrive(d)
       /\ c_in' = d
       /\ IF d.file_id \notin DOMAIN incoming_files
            THEN /\ c_listening' = FALSE
                 /\ UNCHANGED <<incoming_files, downloads, c_sent>>
          ELSE LET file_info == incoming_files[d.file_id]
               IN CASE file_info.status = "ignored" ->
                         /\ c_listening' = FALSE
                         /\ UNCHANGED <<incoming_files, downloads, c_sent>>
                    [] file_info.status = "pending" ->
                         /\ incoming_files' =
                              [incoming_files EXCEPT ![d.file_id].status = "ignored"]
                         /\ c_listening' = FALSE
                         /\ UNCHANGED <<downloads, c_sent>>
                    [] file_info.status = "receiving" ->
                         IF d.chunk_index \in DOMAIN file_info.received_chunks
                           THEN /\ c_listening' = FALSE
                                /\ UNCHANGED <<incoming_files, downloads, c_sent>>
                           ELSE LET r == store_chunk(file_info, d, c_now)
                                IN /\ incoming_files' =
                                        [incoming_files EXCEPT ![d.file_id] = r.info]
                                   /\ c_listening' = r.goes_on
                                   /\ downloads' =
                                        IF r.written
                                          THEN (d.file_id :> r.data) @@ downloads
                                          ELSE downloads
                                   /\ c_sent' =
                                        IF r.written
                                          THEN send_file_received(c_sent, d.file_id,
                                                                  "COMPLETE")
                                          ELSE c_sent
                    [] OTHER ->
                         UNCHANGED <<incoming_files, downloads, c_sent, c_listening>>
  /\ UNCHANGED <<c_now, not_c>>

\* a FILE_CHUNK reaches the socket after the listen_loop thread has ended:
\* nobody reads it
client_unread ==
  /\ ~c_listening
  /\ \E d \in ClientChunks :
       /\ Arrive(d)
       /\ <<c_arrived', c_stray'>> # <<c_arrived, c_stray>>
  /\ c_in' = NoChunkIn
  /\ UNCHANGED <<incoming_files, downloads, c_sent, c_listening, c_now, not_c>>

\* client_accept taking an 'ignored' transfer as well as a 'pending' one
client_accept_revive ==
  /\ \E file_id \in FileIds :
       /\ file_id \in DOMAIN incoming_files
       /\ incoming_files[file_id].status \in {"pending", "ignored"}
       /\ incoming_files' = [incoming_files EXCEPT ![file_id].status = "receiving"]
  /\ c_in' = NoChunkIn
  /\ UNCHANGED <<downloads, c_sent, c_listening, c_arrived, c_stray, c_now, not_c>>

\* the command "accept <fileid>"
client_accept ==
  /\ \E file_id \in FileIds :
       /\ file_id \in DOMAIN incoming_files
       /\ incoming_files[file_id].status = "pending"
       /\ incoming_files' = [incoming_files EXCEPT ![file_id].status = "receiving"]
  /\ c_in' = NoChunkIn
  /\ UNCHANGED <<downloads, c_sent, c_listening, c_arrived, c_stray, c_now, not_c>>

\* client_ignore taking a 'complete' transfer as well
client_ignore_complete ==
  /\ \E file_id \in FileIds :
       /\ file_id \in DOMAIN incoming_files
       /\ incoming_files[file_id].status \in {"pending", "receiving", "complete"}
       /\ incoming_files' = [incoming_files EXCEPT ![file_id].status = "ignored"]
       /\ c_sent' = send_file_received(c_sent, file_id, "IGNORED")
  /\ c_in' = NoChunkIn
  /\ UNCHANGED <<downloads, c_listening, c_arrived, c_stray, c_now, not_c>>

\* the command "ignore <fileid>"
client_ignore ==
  /\ \E file_id \in FileIds :
       /\ file_id \in DOMAIN incoming_files
       /\ incoming_files[file_id].status \in {"pending", "receiving"}
       /\ incoming_files' = [incoming_files EXCEPT ![file_id].status = "ignored"]
       /\ c_sent' = send_file_received(c_sent, file_id, "IGNORED")
  /\ c_in' = NoChunkIn
  /\ UNCHANGED <<downloads, c_listening, c_arrived, c_stray, c_now, not_c>>

\* file_transfer_cleanup_loop: one sweep
file_transfer_cleanup_loop ==
  /\ LET files_to_remove ==
           {f \in DOMAIN incoming_files :
              \/ /\ incoming_files[f].status = "receiving"
                 /\ c_now - incoming_files[f].last_chunk_time > FILE_TRANSFER_TIMEOUT
              \/ /\ incoming_files[f].status \in {"complete", "ignored"}
                 /\ c_now - incoming_files[f].last_chunk_time > COMPLETED_KEPT}
     IN /\ files_to_remove # {}
        /\ incoming_files' =
             [f \in DOMAIN incoming_files \ files_to_remove |-> incoming_files[f]]
  /\ c_in' = NoChunkIn
  /\ UNCHANGED <<downloads, c_sent, c_listening, c_arrived, c_stray, c_now, not_c>>

client_tick ==
  /\ \E t \in ClientTimes : t > c_now /\ c_now' = t
  /\ c_in' = NoChunkIn
  /\ UNCHANGED <<incoming_files, downloads, c_sent, c_listening, c_arrived,
                 c_stray, not_c>>

ClientIdle ==
  /\ incoming_files = <<>>
  /\ downloads = <<>>
  /\ c_sent = NoSent
  /\ c_listening = TRUE
  /\ c_arrived = {}
  /\ c_stray = {}
  /\ c_now = 0
  /\ c_in = NoChunkIn

NextClient ==
  \/ client_FILE_OFFER
  \/ client_FILE_CHUNK
  \/ client_unread
  \/ client_accept
  \/ client_ignore
  \/ file_transfer_cleanup_loop
  \/ client_tick

(***************************************************************************)
(* client.py: the sending side of a file transfer.  The sender is client   *)
(* a; incoming_files is here the table of the receiving client.            *)
(***************************************************************************)
\* client.py peers of the sender, as the server's WELCOME and PEER_JOINED
\* messages filled it
ClientPeers == {"b"}

OMsg(type, to, file_id, chunk_index) ==
  [type |-> type, to |-> to, file_id |-> file_id, chunk_index |-> chunk_index]

\* the command "sendfile <user> <path>": send_file_offer for an existing
\* file of total_chunks chunks; the file id is new
send_file_offer ==
  /\ \E to_user_id \in ClientPeers \cup {"z"}, file_id \in FileIds,
        total_chunks \in 0..MaxChunks :
       /\ file_id \notin DOMAIN outgoing_files
       /\ IF to_user_id \notin ClientPeers
            THEN UNCHANGED o_vars
            ELSE /\ o_sent' = o_sent \cup {OMsg("FILE_OFFER", to_user_id, file_id, None)}
                 /\ outgoing_files' =
                      (file_id :> [to_user |-> to_user_id,
                                   total_chunks |-> total_chunks,
                                   sent_chunks |-> 0,
                                   status |-> "offered"]) @@ outgoing_files
                 /\ UNCHANGED o_threads
  /\ UNCHANGED not_o

\* the scan of outgoing_files at the end of an iteration of main's loop
outgoing_scan ==
  /\ \E file_id \in DOMAIN outgoing_files : outgoing_files[file_id].status = "offered"
  /\ outgoing_files' =
       [file_id \in DOMAIN outgoing_files |->
          IF outgoing_files[file_id].status = "offered"
            THEN [outgoing_files[file_id] EXCEPT !.status = "sending"]
            ELSE outgoing_files[file_id]]
  /\ o_threads' =
       [file_id \in DOMAIN o_threads \cup
                     {f \in DOMAIN outgoing_files :
                        outgoing_files[f].status = "offered"} |->
          IF file_id \in DOMAIN o_threads THEN o_threads[file_id] ELSE 0]
  /\ UNCHANGED <<o_sent, not_o>>

\* one iteration of the loop of a send_file_chunks thread, or its end
send_file_chunks ==
  /\ \E file_id \in DOMAIN o_threads :
       LET i == o_threads[file_id]
           file_info == outgoing_files[file_id]
       IN IF i < file_info.total_chunks
            THEN /\ o_sent' = o_sent \cup
                                {OMsg("FILE_CHUNK", file_info.to_user, file_id, i)}
                 /\ outgoing_files' =
                      [outgoing_files EXCEPT ![file_id].sent_chunks = i + 1]
                 /\ o_threads' = [o_threads EXCEPT ![file_id] = i + 1]
            ELSE /\ outgoing_files' =
                      [outgoing_files EXCEPT ![file_id].status = "complete"]
                 /\ o_threads' =
                      [f \in DOMAIN o_threads \ {file_id} |-> o_threads[f]]
                 /\ UNCHANGED o_sent
  /\ UNCHANGED not_o

\* the receiving client reads the FILE_OFFER that was sent to it
offer_delivered ==
  /\ \E m \in o_sent : m.type = "FILE_OFFER"
  /\ client_FILE_OFFER

SendIdle ==
  /\ outgoing_files = <<>>
  /\ o_threads = <<>>
  /\ o_sent = {}

NextClientSend ==
  \/ send_file_offer
  \/ outgoing_scan
  \/ send_file_chunks
  \/ offer_delivered
  \/ client_accept
  \/ client_ignore

(***************************************************************************)
(* lsnp.py: handle_file_chunk                                              *)
(***************************************************************************)
LFileIds == {"f1", "f2"}

\* a slot of received_chunks[fileid]["chunks"]: None or the bytes stored
NoChunk == [filled |-> FALSE, data |-> <<>>]
Stored(data) == [filled |-> TRUE, data |-> data]

\* the FILE_CHUNK messages that process_messages takes from message_queue:
\* CHUNK_NUM from 0 to MaxChunks + 1; chunk number n carries chunk n - 1 of
\* the file (send_file_chunks)
LChunk(fileid, chunk_num, total_chunks, data) ==
  [fileid |-> fileid, chunk_num |-> chunk_num, total_chunks |-> total_chunks,
   data |-> data, sender_ip |-> IpOf("a")]

LsnpChunks ==
  {LChunk(f, n, t, b64encode(Payload(n - 1)))
     : f \in LFileIds, n \in 0..(MaxChunks + 1), t \in 1..MaxChunks}
    \cup {LChunk(f, 1, 1, BadData) : f \in LFileIds}

\* list[i] of Python: the position (from 1) that index i reads and writes,
\* 0 when list[i] raises IndexError
list_position(len, i) ==
  IF 0 <= i /\ i < len THEN i + 1
  ELSE IF i < 0 /\ -len <= i THEN len + i + 1
  ELSE 0

\* all(chunks): no slot is None and no slot holds b''
all_chunks(chunks) ==
  \A i \in 1..Len(chunks) : chunks[i].filled /\ chunks[i].data # <<>>

\* handle_file_chunk as process_messages calls it, with no except clause
\* between the call and the thread's top
handle_file_chunk ==
  /\ f_alive
  /\ \E d \in LsnpChunks :
       /\ f_completions[d.fileid] < MaxCompletions
       /\ IF b64decode_fails(d.data)
            THEN UNCHANGED <<received_chunks, f_files, f_completions, f_alive>>
            ELSE
              LET data == b64decode(d.data)
                  rc1 == IF d.fileid \in DOMAIN received_chunks
                           THEN received_chunks
                           ELSE (d.fileid :>
                                   [total |-> d.total_chunks,
                                    chunks |-> [i \in 1..d.total_chunks |-> NoChunk],
                                    sender |-> d.sender_ip]) @@ received_chunks
                  chunks == rc1[d.fileid].chunks
                  pos == list_position(Len(chunks), d.chunk_num - 1)
              IN IF pos = 0
                   THEN /\ received_chunks' = rc1
                        /\ f_alive' = FALSE
                        /\ UNCHANGED <<f_files, f_completions>>
                   ELSE
                     LET chunks1 == IF ~chunks[pos].filled
                                      THEN [chunks EXCEPT ![pos] = Stored(data)]
                                      ELSE chunks
                     IN IF all_chunks(chunks1)
                          THEN /\ f_files' =
                                    (d.fileid :>
                                       Concat([i \in 1..Len(chunks1) |-> chunks1[i].data]))
                                    @@ f_files
                               /\ f_completions' =
                                    [f_completions EXCEPT ![d.fileid] = @ + 1]
                               /\ received_chunks' =
                                    [f \in DOMAIN rc1 \ {d.fileid} |-> rc1[f]]
                               /\ UNCHANGED f_alive
                          ELSE /\ received_chunks' =
                                    [rc1 EXCEPT ![d.fileid].chunks = chunks1]
                               /\ UNCHANGED <<f_files, f_completions, f_alive>>
  /\ UNCHANGED not_f

FileIdle ==
  /\ received_chunks = <<>>
  /\ f_files = <<>>
  /\ f_completions = [f \in LFileIds |-> 0]
  /\ f_alive = TRUE

NextLsnpFile ==
  \/ handle_file_chunk

(***************************************************************************)
(* lsnp.py, send_post                                                      *)
(***************************************************************************)
\* one iteration of "for peer_id, info in peers.items()": send_with_retry to
\* info["ip"] with the scope "chat", up to the first test of its loop
send_post_iteration(p, todo, msg_id) ==
  \E peer_id \in todo, n \in TokenNums :
    LET dest_ip == peers[p][peer_id].ip
        msg == LMsg("POST", IpOf(p), dest_ip)
    IN /\ send_with_retry(p, msg, dest_ip, msg_id, "chat", n)
       /\ post_todo' = [post_todo EXCEPT ![p] = todo \ {peer_id}]
       /\ UNCHANGED <<l_net, message_queue, games, peers, running, l_now>>

\* send_post: generate_msgid, then the first iteration over peers
send_post(p) ==
  /\ AtPrompt(p)
  /\ post_todo[p] = {}
  /\ UNCHANGED not_lp
  /\ IF DOMAIN peers[p] = {}
       THEN UNCHANGED <<l_vars, p_vars>>
       ELSE \E msg_id \in MsgIds : send_post_iteration(p, DOMAIN peers[p], msg_id)

\* send_post: send_with_retry returned, the loop goes on with the next peer
\* and the same msg_id
send_post_next(p) ==
  /\ running[p]
  /\ swr[p].pc = "done"
  /\ post_todo[p] # {}
  /\ UNCHANGED not_lp
  /\ send_post_iteration(p, post_todo[p], swr[p].msg_id)

PostIdle == post_todo = [p \in Nodes |-> {}]

NextLsnpPost ==
  \/ \E p \in Nodes : lsnp_listen_loop(p)
  \/ \E p \in Nodes : process_messages(p)
  \/ \E p \in Senders : send_post(p)
  \/ \E p \in Senders : send_post_next(p)
  \/ \E p \in Nodes : send_with_retry_loop(p)
  \/ \E p \in Nodes : send_with_retry_acked(p)
  \/ \E p \in Nodes : send_with_retry_timeout(p)
  \/ lsnp_lose

(***************************************************************************)
(* lsnp.py, tic-tac-toe                                                    *)
(***************************************************************************)
\* bound: the moves applied to one game
MaxMoves == 5

\* the cells the local user types, and the POS and TURN of the moves a host
\* outside the model sends
LocalPos == {0, 4, 8}
RemotePos == {0, 1, 2}
RemoteTurns == {2, 4}

\* the main thread is at its prompt and reads a move command
GamePrompt(p) ==
  /\ running[p]
  /\ swr[p].pc \in {"idle", "done"}

\* make_move up to the first test of send_with_retry's loop, for a cell of
\* the set positions
make_move_at(p, positions) ==
  /\ GamePrompt(p)
  /\ UNCHANGED not_l
  /\ \E gameid \in GameIds, pos \in positions, n \in TokenNums, msg_id \in MsgIds :
       IF gameid \notin DOMAIN games[p]
         THEN UNCHANGED l_vars
         ELSE LET g == games[p][gameid]
                  row == pos \div 3
                  col == pos % 3
                  symbol == IF Len(g.moves) % 2 = 0 THEN "X" ELSE "O"
                  opp == IF p = g.player_x THEN g.player_o ELSE g.player_x
              IN IF g.status # "active" \/ g.board[row][col] # None
                   THEN UNCHANGED l_vars
                   ELSE /\ Len(g.moves) < MaxMoves
                        /\ games' = [games EXCEPT ![p][gameid] =
                                       [g EXCEPT !.board[row][col] = symbol,
                                                 !.moves = Append(@, <<g.turn, pos, p>>),
                                                 !.turn = @ + 1]]
                        /\ IF opp \in DOMAIN peers[p]
                             THEN LET dest_ip == peers[p][opp].ip
                                      msg == [LMsg("TICTACTOE_MOVE", IpOf(p), dest_ip)
                                                EXCEPT !.gameid = gameid, !.pos = pos,
                                                       !.turn = g.turn]
                                  IN send_with_retry(p, msg, dest_ip, msg_id, "game", n)
                             ELSE UNCHANGED <<tokens, swr, nsent, ackGot, ncalls>>
                        /\ UNCHANGED <<l_net, message_queue, peers, running, l_now>>

make_move(p) == make_move_at(p, LocalPos)

\* Datagrams a host outside the model (at ip_x) may send to node a: an
\* invitation that makes a the player O, and moves with a MSGID and no TOKEN
GameInjected ==
  {[LMsg("TICTACTOE_INVITE", "ip_x", IpOf("a")) EXCEPT
      !.gameid = "g1", !.player_x = "x", !.player_o = "a", !.msgid = "m1"]}
  \cup {[LMsg("TICTACTOE_MOVE", "ip_x", IpOf("a")) EXCEPT
            !.gameid = "g1", !.pos = pos, !.turn = turn, !.msgid = "m1"] :
          pos \in RemotePos, turn \in RemoteTurns}

\* one such datagram is in flight at a time
game_inject ==
  /\ l_net \cap GameInjected = {}
  /\ message_queue["a"] = <<>>
  /\ \A g \in DOMAIN games["a"] : Len(games["a"][g].moves) < MaxMoves
  /\ \E d \in GameInjected : l_net' = l_net \cup {d}
  /\ UNCHANGED <<not_l, message_queue, tokens, games, peers, swr, running, l_now,
                 nsent, ackGot, ncalls>>

\* node a plays; the counterpart does not answer, so that no ACK reaches a and
\* every send_with_retry call of a runs to its last attempt
NextLsnpGame ==
  \/ \E p \in Senders : lsnp_listen_loop(p)
  \/ \E p \in Senders : process_messages(p)
  \/ \E p \in Senders : start_game(p)
  \/ \E p \in Senders : make_move(p)
  \/ \E p \in Senders : send_with_retry_loop(p)
  \/ \E p \in Senders : send_with_retry_timeout(p)
  \/ game_inject

(***************************************************************************)
(* lsnp.py, group messaging                                                *)
(***************************************************************************)
\* bound: the send_with_retry calls of the group commands
MaxGroupCalls == 4

GroupIds == {"G"}

\* the member lists the user types
MemberLists == {<<"b">>, <<"a", "b", "c">>, <<"z", "c", "b">>}

RECURSIVE valid_members(_, _)
\* [m for m in members if m in peers]
valid_members(members, prs) ==
  IF members = <<>> THEN <<>>
  ELSE IF Head(members) \in DOMAIN prs
    THEN <<Head(members)>> \o valid_members(Tail(members), prs)
    ELSE valid_members(Tail(members), prs)

\* members_loop leaving the loop at the first member it does not send to
members_loop_break(members, me, prs) ==
  IF members = <<>> THEN <<>>
  ELSE IF Head(members) # me /\ Head(members) \in DOMAIN prs THEN members
  ELSE <<>>

RECURSIVE members_loop(_, _, _)
\* "for member in members: if member != USER_ID and member in peers": the
\* rest of the list from the next member that is sent to
members_loop(members, me, prs) ==
  IF members = <<>> THEN <<>>
  ELSE IF Head(members) # me /\ Head(members) \in DOMAIN prs THEN members
  ELSE members_loop(Tail(members), me, prs)

NoLoop == [type |-> None, group_id |-> None, rest |-> <<>>]

\* the for loop goes on over members: send_with_retry to the next member
\* that is sent to, up to the first test of its loop; or the loop is over
group_iterate(p, type, group_id, members, msg_id) ==
  LET rest == members_loop(members, p, peers[p])
  IN IF rest = <<>>
       THEN /\ group_loop' = [group_loop EXCEPT ![p] =
                                [type |-> type, group_id |-> group_id, rest |-> <<>>]]
            /\ UNCHANGED <<l_net, message_queue, tokens, games, peers, swr, running,
                           l_now, nsent, ackGot, ncalls>>
       ELSE \E n \in TokenNums :
              LET dest_ip == peers[p][Head(rest)].ip
                  msg == [LMsg(type, IpOf(p), dest_ip) EXCEPT !.group_id = group_id]
              IN /\ send_with_retry(p, msg, dest_ip, msg_id, "group", n)
                 /\ group_loop' = [group_loop EXCEPT ![p] =
                                     [type |-> type, group_id |-> group_id,
                                      rest |-> Tail(rest)]]
                 /\ UNCHANGED <<l_net, message_queue, games, peers, running, l_now>>

\* the main thread is at its prompt and reads a group command
GroupPrompt(p) ==
  /\ running[p]
  /\ swr[p].pc \in {"idle", "done"}
  /\ group_loop[p].rest = <<>>
  /\ ncalls < MaxGroupCalls

\* create_group, up to the first test of the first send_with_retry's loop
create_group(p) ==
  /\ GroupPrompt(p)
  /\ UNCHANGED not_lg
  /\ \E group_id \in GroupIds, members \in MemberLists, msg_id \in MsgIds :
       LET valid == valid_members(members, peers[p])
       IN /\ groups' = [groups EXCEPT ![p] = (group_id :> [members |-> valid]) @@ @]
          /\ group_iterate(p, "GROUP_CREATE", group_id, valid, msg_id)

\* send_group_message, up to the first test of the first send_with_retry's loop
send_group_message(p) ==
  /\ GroupPrompt(p)
  /\ UNCHANGED <<groups, not_lg>>
  /\ \E group_id \in GroupIds, msg_id \in MsgIds :
       IF group_id \notin DOMAIN groups[p]
         THEN UNCHANGED <<l_vars, group_loop>>
         ELSE group_iterate(p, "GROUP_MESSAGE", group_id, groups[p][group_id].members,
                            msg_id)

\* send_with_retry returned: the for loop goes on with the same msg_id
group_next(p) ==
  /\ running[p]
  /\ swr[p].pc = "done"
  /\ group_loop[p].rest # <<>>
  /\ UNCHANGED <<groups, not_lg>>
  /\ group_iterate(p, group_loop[p].type, group_loop[p].group_id, group_loop[p].rest,
                   swr[p].msg_id)

\* the PROFILE broadcast of a third node c reaches node a
ProfileOfC ==
  [LMsg("PROFILE", "ip_c", IpOf("a")) EXCEPT !.user = "c", !.name = "c"]

profile_inject ==
  /\ ProfileOfC \notin l_net
  /\ "c" \notin DOMAIN peers["a"]
  /\ message_queue["a"] = <<>>
  /\ l_net' = l_net \cup {ProfileOfC}
  /\ UNCHANGED <<not_l, message_queue, tokens, games, peers, swr, running, l_now,
                 nsent, ackGot, ncalls>>

GroupIdle ==
  /\ groups = [p \in Nodes |-> <<>>]
  /\ group_loop = [p \in Nodes |-> NoLoop]

\* node a uses groups; the members do not answer
NextLsnpGroup ==
  \/ \E p \in Senders : lsnp_listen_loop(p)
  \/ \E p \in Senders : process_messages(p)
  \/ \E p \in Senders : create_group(p)
  \/ \E p \in Senders : send_group_message(p)
  \/ \E p \in Senders : group_next(p)
  \/ \E p \in Senders : send_with_retry_loop(p)
  \/ \E p \in Senders : send_with_retry_timeout(p)
  \/ profile_inject

\* ---- the server relays file traffic; incoming_files is here the table of
\* ---- client c, a third registered client ----
RelayUsers == {"a", "b", "c"}

\* a, b and c register; a sends b a FILE_OFFER and a FILE_CHUNK
RelayInputs ==
  {Dgram(IpOf(u), "p1", [H("REGISTER") EXCEPT !.user = Ident(u, None), !.name = "n1"]) :
     u \in RelayUsers}
  \cup {Dgram(IpOf("a"), "p1", [H(ty) EXCEPT !.from = Ident("a", IpOf("a")),
                                             !.to = "b"]) :
          ty \in {"FILE_OFFER", "FILE_CHUNK"}}

\* a datagram that the server sent to the address of c reaches c's
\* listen_loop
relay_delivered ==
  \/ /\ \E o \in s_out : o.ip = IpOf("c") /\ o.h.type = "FILE_OFFER"
     /\ client_FILE_OFFER
  \/ /\ \E o \in s_out : o.ip = IpOf("c") /\ o.h.type = "FILE_CHUNK"
     /\ client_FILE_CHUNK

NextRelay ==
  \/ handle_message_from(RelayInputs)
  \/ relay_delivered

\* ---- a game between the nodes a and b ----
\* the cell each user types
PlayPos(p) == IF p = "a" THEN {0} ELSE {4}

\* a invites b; both play, both run their three threads; datagrams may be lost
NextLsnpPlay ==
  \/ \E p \in Nodes : lsnp_listen_loop(p)
  \/ \E p \in Nodes : process_messages(p)
  \/ start_game("a")
  \/ \E p \in Nodes : make_move_at(p, PlayPos(p))
  \/ \E p \in Nodes : send_with_retry_loop(p)
  \/ \E p \in Nodes : send_with_retry_acked(p)
  \/ \E p \in Nodes : send_with_retry_timeout(p)
  \/ lsnp_lose

\* ---- the chunk loops: a file is its number of bytes ----
FILE_CHUNK_SIZE == 1024

\* bound: files of up to MaxKiB full chunks and a rest
MaxKiB == 3
FileSizes == {k * FILE_CHUNK_SIZE + rest : k \in 0..MaxKiB, rest \in {0, 1, 452, 1023}}

\* client.py send_file_offer with total_chunks = filesize // FILE_CHUNK_SIZE + 1
total_chunks_plus_one(filesize) == filesize \div FILE_CHUNK_SIZE + 1

\* client.py send_file_offer: total_chunks
total_chunks(filesize) == (filesize + FILE_CHUNK_SIZE - 1) \div FILE_CHUNK_SIZE

\* f.seek(offset); len(f.read(n)), and len(data[offset:offset+n])
read_len(filesize, offset, n) ==
  IF offset >= filesize THEN 0
  ELSE IF filesize - offset < n THEN filesize - offset ELSE n

\* lsnp.py send_file_chunks: len(chunks), the length of
\* range(0, len(data), 1024)
RECURSIVE range_len(_, _, _)
range_len(start, stop, step) ==
  IF start >= stop THEN 0 ELSE 1 + range_len(start + step, stop, step)

\* client.py: send_file_offer computes TOTAL_CHUNKS, the send_file_chunks
\* thread enters its loop
chunks_client_start ==
  /\ z_pc = "idle"
  /\ \E filesize \in FileSizes :
       /\ z_size' = filesize
       /\ z_total' = total_chunks(filesize)
  /\ z_pc' = "client"
  /\ z_i' = 0
  /\ z_chunks' = <<>>
  /\ UNCHANGED not_z

\* client.py send_file_chunks: one iteration of for i in range(total_chunks),
\* or the end of the loop (the range is exhausted, or read returned nothing)
chunks_client_loop ==
  /\ z_pc = "client"
  /\ LET chunk_data == read_len(z_size, z_i * FILE_CHUNK_SIZE, FILE_CHUNK_SIZE)
     IN IF z_i < z_total /\ chunk_data # 0
          THEN /\ z_chunks' = Append(z_chunks, <<z_i, chunk_data>>)
               /\ z_i' = z_i + 1
               /\ UNCHANGED z_pc
          ELSE /\ z_pc' = "sent_client"
               /\ UNCHANGED <<z_i, z_chunks>>
  /\ UNCHANGED <<z_size, z_total, not_z>>

\* lsnp.py send_file_chunks: data is read and cut into chunks
chunks_lsnp_start ==
  /\ z_pc = "idle"
  /\ \E filesize \in FileSizes :
       /\ z_size' = filesize
       /\ z_total' = range_len(0, filesize, FILE_CHUNK_SIZE)
  /\ z_pc' = "lsnp"
  /\ z_i' = 0
  /\ z_chunks' = <<>>
  /\ UNCHANGED not_z

\* lsnp.py send_file_chunks: one iteration of for idx, chunk in
\* enumerate(chunks) with CHUNK_NUM idx + 1, or the end of the loop
chunks_lsnp_loop ==
  /\ z_pc = "lsnp"
  /\ IF z_i < z_total
       THEN /\ z_chunks' = Append(z_chunks,
                 <<z_i + 1, read_len(z_size, z_i * FILE_CHUNK_SIZE, FILE_CHUNK_SIZE)>>)
            /\ z_i' = z_i + 1
            /\ UNCHANGED z_pc
       ELSE /\ z_pc' = "sent_lsnp"
            /\ UNCHANGED <<z_i, z_chunks>>
  /\ UNCHANGED <<z_size, z_total, not_z>>

\* the next file
chunks_next_file ==
  /\ z_pc \in {"sent_client", "sent_lsnp"}
  /\ z_pc' = "idle"
  /\ z_size' = 0
  /\ z_total' = 0
  /\ z_i' = 0
  /\ z_chunks' = <<>>
  /\ UNCHANGED not_z

ChunksIdle ==
  /\ z_pc = "idle"
  /\ z_size = 0
  /\ z_total = 0
  /\ z_i = 0
  /\ z_chunks = <<>>

NextChunks ==
  \/ chunks_client_start
  \/ chunks_client_loop
  \/ chunks_lsnp_start
  \/ chunks_lsnp_loop
  \/ chunks_next_file

\* ---- discovery: PROFILE, PING and PONG reach node a ----
\* b announces itself under its name or a new one, once in a datagram that
\* does not end with the blank line; the host d, which a has not seen
\* before, sends a PONG and a PROFILE; b sends a PING.  No datagram is lost.
PeersInjected ==
  {[LMsg("PROFILE", IpOf("b"), IpOf("a")) EXCEPT !.user = "b", !.name = n] :
     n \in {"b", "b2"}}
  \cup {[LMsg("PROFILE", IpOf("b"), IpOf("a")) EXCEPT !.user = "b", !.name = "b",
                                                       !.term = FALSE],
        [LMsg("PROFILE", "ip_x", IpOf("a")) EXCEPT !.user = "d", !.name = "d"],
        [LMsg("PONG", "ip_x", IpOf("a")) EXCEPT !.user = "d"],
        [LMsg("PONG", IpOf("b"), IpOf("a")) EXCEPT !.user = "b"],
        [LMsg("PING", IpOf("b"), IpOf("a")) EXCEPT !.user = "b"]}

\* one such datagram is in flight at a time
peers_inject ==
  /\ l_net \cap PeersInjected = {}
  /\ \E d \in PeersInjected : l_net' = l_net \cup {d}
  /\ UNCHANGED <<not_l, message_queue, tokens, games, peers, swr, running, l_now,
                 nsent, ackGot, ncalls>>

NextLsnpPeers ==
  \/ \E p \in Senders : lsnp_listen_loop(p)
  \/ \E p \in Senders : process_messages(p)
  \/ peers_inject
  \/ lsnp_tick

\* ---- make_move and handle_move statement by statement, on node a ----
\* The main thread runs make_move, the process_messages thread runs
\* handle_invite and handle_move; neither takes a lock, and the interpreter
\* may switch threads between any two statements.

\* last: the handler the thread ran last
NoFrame == [pc |-> "out", pos |-> 0, turn |-> 0, symbol |-> None, last |-> None]

InUpdate(frame) == frame.pc \in {"board", "moves", "turn"}

\* the tables other than games stay as they are
race_frame ==
  UNCHANGED <<l_net, message_queue, tokens, peers, swr, running, l_now, nsent,
              ackGot, ncalls, not_lr>>

\* process_messages dispatches the invitation of GameInjected: handle_invite
race_handle_invite ==
  /\ hm.pc = "out"
  /\ \E d \in {m \in GameInjected : m.type = "TICTACTOE_INVITE"} :
       games' = [games EXCEPT !["a"] = handle_invite(@, d)]
  /\ hm' = [NoFrame EXCEPT !.last = "handle_invite"]
  /\ UNCHANGED mm
  /\ race_frame

\* make_move: the tests of gameid, status and the cell, and the choice of
\* the symbol
make_move_tests ==
  /\ mm.pc = "out"
  /\ \E gameid \in GameIds, pos \in LocalPos :
       /\ gameid \in DOMAIN games["a"]
       /\ LET g == games["a"][gameid]
          IN /\ g.status = "active"
             /\ g.board[pos \div 3][pos % 3] = None
             /\ Len(g.moves) < MaxMoves
             /\ mm' = [pc |-> "board", pos |-> pos, turn |-> 0,
                       symbol |-> IF Len(g.moves) % 2 = 0 THEN "X" ELSE "O",
                       last |-> "make_move"]
  /\ UNCHANGED <<games, hm>>
  /\ race_frame

\* g["board"][row][col] = symbol
make_move_board ==
  /\ mm.pc = "board"
  /\ games' = [games EXCEPT !["a"]["g1"].board[mm.pos \div 3][mm.pos % 3] = mm.symbol]
  /\ mm' = [mm EXCEPT !.pc = "moves"]
  /\ UNCHANGED hm
  /\ race_frame

\* g["moves"].append((g["turn"], pos, USER_ID))
make_move_moves ==
  /\ mm.pc = "moves"
  /\ games' = [games EXCEPT !["a"]["g1"].moves =
                 Append(@, <<games["a"]["g1"].turn, mm.pos, "a">>)]
  /\ mm' = [mm EXCEPT !.pc = "turn"]
  /\ UNCHANGED hm
  /\ race_frame

\* g["turn"] += 1; the opponent x is not in peers, so nothing is sent
make_move_turn ==
  /\ mm.pc = "turn"
  /\ games' = [games EXCEPT !["a"]["g1"].turn = @ + 1]
  /\ mm' = [NoFrame EXCEPT !.last = "make_move"]
  /\ UNCHANGED hm
  /\ race_frame

\* handle_move of a TICTACTOE_MOVE of GameInjected: the tests of gameid and
\* TURN, and the choice of the symbol
handle_move_tests ==
  /\ hm.pc = "out"
  /\ \E d \in {m \in GameInjected : m.type = "TICTACTOE_MOVE"} :
       /\ d.gameid \in DOMAIN games["a"]
       /\ LET g == games["a"][d.gameid]
          IN /\ ~(d.turn <= Len(g.moves))
             /\ Len(g.moves) < MaxMoves
             /\ hm' = [pc |-> "board", pos |-> d.pos, turn |-> d.turn,
                       symbol |-> IF "a" = g.player_x THEN "O" ELSE "X",
                       last |-> "handle_move"]
  /\ UNCHANGED <<games, mm>>
  /\ race_frame

\* g["board"][row][col] = symbol
handle_move_board ==
  /\ hm.pc = "board"
  /\ games' = [games EXCEPT !["a"]["g1"].board[hm.pos \div 3][hm.pos % 3] = hm.symbol]
  /\ hm' = [hm EXCEPT !.pc = "moves"]
  /\ UNCHANGED mm
  /\ race_frame

\* g["moves"].append((turn, pos, "opponent"))
handle_move_moves ==
  /\ hm.pc = "moves"
  /\ games' = [games EXCEPT !["a"]["g1"].moves = Append(@, <<hm.turn, hm.pos, "opponent">>)]
  /\ hm' = [hm EXCEPT !.pc = "turn"]
  /\ UNCHANGED mm
  /\ race_frame

\* g["turn"] = turn + 1
handle_move_turn ==
  /\ hm.pc = "turn"
  /\ games' = [games EXCEPT !["a"]["g1"].turn = hm.turn + 1]
  /\ hm' = [NoFrame EXCEPT !.last = "handle_move"]
  /\ UNCHANGED mm
  /\ race_frame

RaceIdle ==
  /\ mm = NoFrame
  /\ hm = NoFrame

NextLsnpRace ==
  \/ race_handle_invite
  \/ make_move_tests
  \/ make_move_board
  \/ make_move_moves
  \/ make_move_turn
  \/ handle_move_tests
  \/ handle_move_board
  \/ handle_move_moves
  \/ handle_move_turn

(***************************************************************************)
(* Specifications                                                          *)
(***************************************************************************)
Init ==
  /\ LsnpIdle
  /\ SrvIdle
  /\ CodecIdle
  /\ ClientIdle
  /\ FileIdle
  /\ PostIdle
  /\ SweepIdle
  /\ SendIdle
  /\ GroupIdle
  /\ LockIdle
  /\ RaceIdle
  /\ ChunksIdle

\* Datagrams a host outside the model (at ip_x) may send to node a: a REVOKE
\* naming a token that a's send_dm creates.  listen_loop has no scope for
\* REVOKE and queues it.
RevokeInjected ==
  {[LMsg("REVOKE", "ip_x", IpOf("a")) EXCEPT !.token = Tok("dm", n)] :
     n \in TokenNums}

\* one such datagram is in flight at a time
revoke_inject ==
  /\ l_net \cap RevokeInjected = {}
  /\ \E d \in RevokeInjected : l_net' = l_net \cup {d}
  /\ UNCHANGED <<not_l, message_queue, tokens, games, peers, swr, running, l_now,
                 nsent, ackGot, ncalls>>

\* node a with its three threads, the clock and the outside host
NextLsnpRevoke ==
  \/ \E p \in Senders :
       \/ lsnp_listen_loop(p)
       \/ process_messages(p)
       \/ send_dm(p)
       \/ send_with_retry_loop(p)
       \/ send_with_retry_timeout(p)
  \/ revoke_inject
  \/ lsnp_lose
  \/ lsnp_tick

NextLsnp ==
  \/ \E p \in Nodes : lsnp_listen_loop(p)
  \/ \E p \in Nodes : process_messages(p)
  \/ \E p \in Senders : send_dm(p)
  \/ \E p \in Senders : start_game(p)
  \/ \E p \in Nodes : send_with_retry_loop(p)
  \/ \E p \in Nodes : send_with_retry_acked(p)
  \/ \E p \in Nodes : send_with_retry_timeout(p)
  \/ lsnp_lose
  \/ lsnp_tick
  \/ lsnp_inject

NextSrv ==
  \/ handle_message
  \/ cleanup_loop
  \/ srv_tick

SpecLsnp == Init /\ [][NextLsnp]_vars

SpecSrv == Init /\ [][NextSrv]_vars

SpecSrvSweep == Init /\ [][NextSrvSweep]_vars

SpecClientSend == Init /\ [][NextClientSend]_vars

SpecCodec == Init /\ [][NextCodec]_vars

SpecClient == Init /\ [][NextClient]_vars

\* the cleanup thread and the clock keep running
SpecClientLive ==
  /\ Init
  /\ [][NextClient]_vars
  /\ WF_vars(file_transfer_cleanup_loop)
  /\ WF_vars(client_tick)

SpecLsnpFile == Init /\ [][NextLsnpFile]_vars

SpecLsnpPost == Init /\ [][NextLsnpPost]_vars

SpecLsnpGame == Init /\ [][NextLsnpGame]_vars

SpecLsnpGroup == Init /\ [][NextLsnpGroup]_vars

SpecLsnpRevoke == Init /\ [][NextLsnpRevoke]_vars

SpecSrvLock == Init /\ [][NextSrvLock]_vars

SpecLsnpRace == Init /\ [][NextLsnpRace]_vars

SpecLsnpPeers == Init /\ [][NextLsnpPeers]_vars

SpecChunks == Init /\ [][NextChunks]_vars

SpecRelay == Init /\ [][NextRelay]_vars

SpecLsnpPlay == Init /\ [][NextLsnpPlay]_vars

(***************************************************************************)
(* Claims about lsnp.py's reliable delivery and token checks               *)
(***************************************************************************)

\* C1: send_with_retry returns True if and only if an ACK with its MSGID was
\* put on message_queue by listen_loop before the ACK_TIMEOUT of the last
\* attempt expired; an ACK that arrived in time is never lost.
C1_TrueIffAckArrived ==
  \A p \in Nodes :
    swr[p].pc = "done" => ((swr[p].result = "True") <=> ackGot[p])

\* C2: send_with_retry calls send_udp at most MAX_RETRIES times, always with
\* the same message; a call that returns False has made exactly MAX_RETRIES
\* attempts; a wait is always followed by a loop test with retries <=
\* MAX_RETRIES, so the call ends; after the return nothing is sent and the
\* frame and the token table do not change until the next command.
C2_Bounded ==
  \A p \in Nodes :
    /\ nsent[p] <= MAX_RETRIES
    /\ swr[p].retries <= MAX_RETRIES
    /\ swr[p].pc = "wait" => swr[p].retries < MAX_RETRIES
    /\ InCall(p) => nsent[p] = swr[p].retries + (IF swr[p].pc = "wait" THEN 1 ELSE 0)
    /\ (swr[p].pc = "done" /\ swr[p].result = "False") => nsent[p] = MAX_RETRIES

\* the steps a call has made: two per attempt (send_udp, then the wait)
C2_Progress(frame) == 2 * frame.retries + (IF frame.pc = "wait" THEN 1 ELSE 0)

\* C2, each step: the message of a call never changes, every step of the
\* call ends it or takes it one step further through its MAX_RETRIES
\* attempts, and a finished call sends nothing and changes nothing
C2_Step ==
  \A p \in Nodes :
    /\ (InCall(p) /\ swr'[p].pc # "idle") =>
          /\ swr'[p].msg = swr[p].msg
          /\ swr'[p] # swr[p] =>
                \/ swr'[p].pc = "done"
                \/ /\ InCall(p)'
                   /\ C2_Progress(swr'[p]) = C2_Progress(swr[p]) + 1
                   /\ C2_Progress(swr'[p]) <= 2 * MAX_RETRIES
          /\ \A d \in l_net' \ l_net :
               (d.src = IpOf(p) /\ d.type # "ACK") => d = swr[p].msg
    /\ (swr[p].pc = "done" /\ swr'[p].pc = "done") =>
          /\ swr'[p] = swr[p]
          /\ nsent'[p] = nsent[p]
          /\ tokens'[p] = tokens[p]
          /\ \A d \in l_net' \ l_net : d.src = IpOf(p) => d.type = "ACK"

\* C2: at most MAX_RETRIES identical transmissions, False after the last
\* one, and nothing afterwards
C2_ThreeAttemptsThenFalse == [](C2_Bounded) /\ [][C2_Step]_vars

C2_Witness ==
  /\ swr["a"].pc = "done"
  /\ swr["a"].result = "False"
  /\ nsent["a"] = MAX_RETRIES

\* C3: a datagram whose TYPE requires a scope and that has no TOKEN, or a
\* TOKEN that validate_token refuses, is not queued by listen_loop and gets
\* no ACK.
C3_Step ==
  \A p \in Nodes : \A d \in l_net :
    (/\ d.dst = IpOf(p)
     /\ ScopeOf(d.type) # None
     /\ \/ d.token = NoToken
        \/ ~validate_token(tokens[p], d.token, ScopeOf(d.type), l_now))
    => /\ message_queue'[p] # Append(message_queue[p], d)
       /\ send_ack(d.msgid, p, d.src) \notin (l_net' \ l_net)

\* C3: no step of the program queues or ACKs such a datagram
C3_FailClosed == [][C3_Step]_vars

\* C5: a token that peer q issued for the scope of the message, not expired
\* and not revoked, passes the checks of another peer's listen_loop.
C5_PeerTokenAccepted ==
  \A p \in Nodes : \A q \in Nodes \ {p} : \A d \in l_net :
    (/\ d.dst = IpOf(p)
     /\ d.src = IpOf(q)
     /\ d.type = "DM"
     /\ d.from_id = q /\ d.from_ip = IpOf(q)
     /\ validate_token(tokens[q], d.token, ScopeOf(d.type), l_now))
    => lsnp_accepts(p, d)

(***************************************************************************)
(* Claims about server.py's handle_message                                 *)
(***************************************************************************)

\* the last datagram handled is a POST of a registered sender
PostHandled ==
  /\ s_in.h.type = "POST"
  /\ sender_id_of(s_in.h) \in DOMAIN clients

\* the clients that follow the sender of the last datagram
FollowersOfSender ==
  {u \in DOMAIN clients : Contains(clients[u].follows, sender_id_of(s_in.h))}

\* C4's four conditions on TOKEN: three fields, subject S, scope
\* 'broadcast', now not later than the integer expiry
C4_TokenConditions ==
  LET parts == split(s_in.h.token.val, "|")
  IN /\ Len(parts) = 3
     /\ parts[1] = <<sender_id_of(s_in.h)>>
     /\ parts[3] = <<"broadcast">>
     /\ ~int_fails(parts[2])
     /\ s_now <= int(parts[2])

\* C4 as stated: a POST of a registered sender (who has a follower) is sent
\* on if and only if the four conditions on TOKEN hold.
C4_FanOutIffTokenOk ==
  (PostHandled /\ FollowersOfSender # {}) =>
     ((s_out # {}) <=> C4_TokenConditions)

\* C4, amended: a POST of a registered sender is sent, unchanged, to exactly
\* the clients that follow the sender if the four conditions on TOKEN hold
\* and the TTL header is absent or a decimal integer; otherwise nothing is
\* sent.
C4_FanOutIffTokenAndTtlOk ==
  PostHandled =>
     s_out = IF C4_TokenConditions
                /\ (s_in.h.ttl.present => ~int_fails(s_in.h.ttl.val))
               THEN {SendTo(clients, u, s_in.h) : u \in FollowersOfSender}
               ELSE {}

C4_Witness ==
  /\ PostHandled
  /\ C4_TokenConditions
  /\ s_now = int(split(s_in.h.token.val, "|")[2])
  /\ s_in.h.ttl.present
  /\ s_out # {}

\* the identity header of the last datagram names an address that is not the
\* datagram's source address
Spoofed(d) ==
  \/ d.h.from.ip # None /\ d.h.from.ip # d.ip
  \/ d.h.user.ip # None /\ d.h.user.ip # d.ip

\* C6: a datagram whose FROM or USER_ID is id@ip with ip different from the
\* source address is rejected: handle_message sends nothing for it.
C6_SpoofedRejected == Spoofed(s_in) => s_out = {}

(***************************************************************************)
(* Claims about the header codec                                           *)
(***************************************************************************)

\* C7: for a header list with distinct keys and no newline in any key or
\* value, the receiver's headers dict equals the mapping the list stands for.
C7_RoundTrip == k_pc = "parsed" => k_parsed = dict_of(k_headers)

(***************************************************************************)
(* Claims about file transfer                                              *)
(***************************************************************************)

\* the file as the sender cut it: chunks 0 .. total - 1 in index order
FileOf(total) == Concat([i \in 1..total |-> Payload(i - 1)])

\* C8: when every index of an accepted transfer has reached the receiver's
\* socket (in any order, duplicates included, and nothing but chunks of the
\* transfer), the file written equals the chunks in increasing index order.
C8_ReassembledInOrder ==
  \A f \in FileIds :
    (/\ f \in DOMAIN incoming_files
     /\ incoming_files[f].status \in {"receiving", "complete", "failed"}
     /\ incoming_files[f].total_chunks >= 1
     /\ c_stray = {}
     /\ \A i \in 0..(incoming_files[f].total_chunks - 1) : <<f, i>> \in c_arrived)
    => /\ f \in DOMAIN downloads
       /\ downloads[f] = FileOf(incoming_files[f].total_chunks)

\* C9, each step: a FILE_CHUNK for a transfer that is being received, whose
\* index is already stored or is outside 0 .. total_chunks - 1, leaves the
\* transfer's chunk buffer and status as they were.
C9_Step ==
  LET d == c_in'
      f == d.file_id
  IN (/\ d # NoChunkIn
      /\ f \in DOMAIN incoming_files
      /\ incoming_files[f].status = "receiving"
      /\ \/ d.chunk_index \in DOMAIN incoming_files[f].received_chunks
         \/ d.chunk_index \notin 0..(incoming_files[f].total_chunks - 1))
     => /\ incoming_files'[f].received_chunks = incoming_files[f].received_chunks
        /\ incoming_files'[f].status = incoming_files[f].status

\* C9: no duplicate or out-of-range FILE_CHUNK changes the chunk buffer or
\* the status of a transfer.
C9_StrayChunkIsNoOp == [][C9_Step]_vars

\* C10: completion fires at most once per file id: one file write and one
\* FILE_RECEIVED, whatever chunks arrive afterwards.
C10_CompletesOnce == \A f \in LFileIds : f_completions[f] <= 1

(***************************************************************************)
(* Claims about server.py's follow graph                                   *)
(***************************************************************************)

\* C11: for all registered clients A and B, B is in A's follows list if and
\* only if A is in B's followers list.
C11_FollowSymmetry ==
  \A A \in DOMAIN clients : \A B \in DOMAIN clients :
    Contains(clients[A].follows, B) <=> Contains(clients[B].followers, A)

\* the step is one call of handle_message for a datagram of this TYPE
Handles(type) == s_in' # NoInput /\ s_in'.h.type = type

\* C12, each step: a FOLLOW whose sender already follows the target leaves
\* both lists (the whole clients table) as they were and sends nothing.
C12_Step ==
  LET A == sender_id_of(s_in'.h)
      B == s_in'.h.to
  IN (/\ Handles("FOLLOW")
      /\ A \in DOMAIN clients /\ B \in DOMAIN clients
      /\ Contains(clients[A].follows, B))
     => /\ clients' = clients
        /\ s_out' = {}

\* C12: FOLLOW is idempotent: following an already-followed target changes
\* neither list and sends no FOLLOW_NOTIFY.
C12_FollowIdempotent == [][C12_Step]_vars

\* a FOLLOW of an already-followed target has just been handled
C12_Witness ==
  /\ s_in.h.type = "FOLLOW"
  /\ sender_id_of(s_in.h) \in DOMAIN clients
  /\ s_in.h.to \in DOMAIN clients
  /\ Contains(clients[sender_id_of(s_in.h)].follows, s_in.h.to)
  /\ Contains(clients[s_in.h.to].followers, sender_id_of(s_in.h))
  /\ s_out = {}

\* C13, each step: a FOLLOW or UNFOLLOW either changes the sender's follows
\* list and the target's followers list and notifies the target, or changes
\* nothing in clients and sends nothing.
C13_Step ==
  LET A == sender_id_of(s_in'.h)
      B == s_in'.h.to
  IN (Handles("FOLLOW") \/ Handles("UNFOLLOW"))
     => \/ /\ clients' = clients
           /\ s_out' = {}
        \/ /\ A \in DOMAIN clients /\ B \in DOMAIN clients
           /\ DOMAIN clients' = DOMAIN clients
           /\ clients'[A].follows # clients[A].follows
           /\ clients'[B].followers # clients[B].followers
           /\ \E m \in s_out' :
                /\ m.ip = clients[B].ip
                /\ m.h.type \in {"FOLLOW_NOTIFY", "UNFOLLOW_NOTIFY"}

\* C13: FOLLOW and UNFOLLOW are all-or-nothing; no request leaves only one
\* of the two lists updated.
C13_AllOrNothing == [][C13_Step]_vars

(***************************************************************************)
(* Claims about the POST fan-out                                           *)
(***************************************************************************)

\* C14: a POST authored by A is delivered to a peer P only if A is in P's
\* follow set; in particular A itself never receives its own POST.  Checked
\* on send_post of lsnp.py: no node has a POST that came from its own
\* address on its message_queue.
C14_AuthorNeverReceivesOwnPost ==
  \A A \in Nodes :
    \A i \in 1..Len(message_queue[A]) :
      ~(message_queue[A][i].type = "POST" /\ message_queue[A][i].src = IpOf(A))

(***************************************************************************)
(* Claims about tic-tac-toe in lsnp.py                                     *)
(***************************************************************************)
Cells == 0..8

CellOf(g, pos) == g.board[pos \div 3][pos % 3]

\* the games a node has before and after a step, the move log of the step's
\* end going on from the log of its start
KeptGames(p) ==
  {gid \in DOMAIN games[p] \cap DOMAIN games'[p] :
     /\ Len(games'[p][gid].moves) >= Len(games[p][gid].moves)
     /\ SubSeq(games'[p][gid].moves, 1, Len(games[p][gid].moves))
          = games[p][gid].moves}

\* C15: once a cell of a game's board holds X or O, no later operation
\* (make_move or handle_move, with any POS and TURN) changes that cell.
C15_Step ==
  \A p \in Nodes : \A gid \in KeptGames(p) : \A pos \in Cells :
    CellOf(games[p][gid], pos) # None
      => CellOf(games'[p][gid], pos) = CellOf(games[p][gid], pos)

C15_CellImmutable == [][C15_Step]_vars

\* the TICTACTOE_MOVE that process_messages dispatches in this step
Dispatches(p, m) ==
  /\ message_queue[p] = <<m>>
  /\ message_queue'[p] = <<>>
  /\ m.type = "TICTACTOE_MOVE"

\* C16: a received TICTACTOE_MOVE is applied only when its TURN is one more
\* than the number of moves already applied, its cell is empty and the game
\* is active; any other move leaves the board, the move log and the turn
\* counter unchanged.
C16_Step ==
  \A p \in Nodes : \A m \in GameInjected : \A gid \in DOMAIN games[p] :
    (/\ Dispatches(p, m)
     /\ m.gameid = gid
     /\ ~(/\ m.turn = Len(games[p][gid].moves) + 1
          /\ CellOf(games[p][gid], m.pos) = None
          /\ games[p][gid].status = "active"))
      => games'[p] = games[p]

C16_OnlyExpectedTurnApplied == [][C16_Step]_vars

\* the player who made a move of the log of node p, and a player's symbol
Mover(p, g, e) ==
  IF e[3] = "opponent" THEN (IF p = g.player_x THEN g.player_o ELSE g.player_x)
  ELSE e[3]

SymbolOf(g, player) == IF player = g.player_x THEN "X" ELSE "O"

\* C17: the applied moves alternate between the two players starting with
\* player X, and the symbol written is the moving player's own symbol: a
\* step that appends a move appends a move of the player on turn and writes
\* that player's symbol.
C17_Step ==
  \A p \in Nodes : \A gid \in KeptGames(p) :
    LET g == games[p][gid]
        h == games'[p][gid]
        e == h.moves[Len(h.moves)]
        onTurn == IF Len(g.moves) % 2 = 0 THEN g.player_x ELSE g.player_o
    IN Len(h.moves) = Len(g.moves) + 1
         => /\ Mover(p, g, e) = onTurn
            /\ CellOf(h, e[2]) = SymbolOf(g, onTurn)

C17_StrictAlternation == [][C17_Step]_vars

\* the 8 winning lines
Lines ==
  {{0, 1, 2}, {3, 4, 5}, {6, 7, 8}, {0, 3, 6}, {1, 4, 7}, {2, 5, 8}, {0, 4, 8},
   {2, 4, 6}}

Won(g) ==
  \E line \in Lines : \E sym \in {"X", "O"} : \A pos \in line : CellOf(g, pos) = sym

Full(g) == \A pos \in Cells : CellOf(g, pos) # None

\* the log of node p holds the turns 1, 2, ... in order, made in turn by
\* player X and player O, each into a different cell
ProperlyPlayed(p, g) ==
  /\ \A i \in 1..Len(g.moves) :
       /\ g.moves[i][1] = i
       /\ Mover(p, g, g.moves[i]) = (IF i % 2 = 1 THEN g.player_x ELSE g.player_o)
  /\ \A i \in 1..Len(g.moves) : \A j \in 1..Len(g.moves) :
       i # j => g.moves[i][2] # g.moves[j][2]

\* C18: after an accepted move that completes one of the 8 lines or fills
\* the board, the game's status is no longer 'active'; checked on the games
\* that were played by the rules.
C18_CompleteWhenWonOrFull ==
  \A p \in Nodes : \A gid \in DOMAIN games[p] :
    LET g == games[p][gid]
    IN (ProperlyPlayed(p, g) /\ (Won(g) \/ Full(g))) => g.status # "active"

(***************************************************************************)
(* Claims about client.py's pending transfers and its listen_loop          *)
(***************************************************************************)
FileOn(files, f) == IF f \in DOMAIN files THEN files[f] ELSE None

\* C19: a FILE_CHUNK for a transfer that is still 'pending' moves it to
\* 'ignored' and stores no chunk data; an 'ignored' transfer is never moved
\* to 'receiving' (by accept or anything else) and chunks that come later
\* store nothing: it stays as it is until the cleanup removes it.
C19_Step ==
  \A f \in FileIds :
    /\ (/\ c_in' # NoChunkIn
        /\ c_in'.file_id = f
        /\ f \in DOMAIN incoming_files
        /\ incoming_files[f].status = "pending")
         => /\ f \in DOMAIN incoming_files'
            /\ incoming_files'[f] = [incoming_files[f] EXCEPT !.status = "ignored"]
            /\ FileOn(downloads', f) = FileOn(downloads, f)
    /\ (f \in DOMAIN incoming_files /\ incoming_files[f].status = "ignored")
         => /\ f \in DOMAIN incoming_files' => incoming_files'[f] = incoming_files[f]
            /\ FileOn(downloads', f) = FileOn(downloads, f)

C20_Step == c_listening => c_listening'

C20_ListenLoopSurvives == [][C20_Step]_vars

\* a record of incoming_files older than the grace period of an hour
Stale(f) ==
  /\ f \in DOMAIN incoming_files
  /\ c_now - incoming_files[f].last_chunk_time > COMPLETED_KEPT

\* C21: while file_transfer_cleanup_loop keeps running, no record stays in
\* incoming_files forever, whatever its status: a record that has been
\* without activity for longer than the grace period is eventually removed
\* (or refreshed).
C21_EventuallyCollected ==
  \A f \in FileIds : Stale(f) ~> ~Stale(f)

(***************************************************************************)
(* Claims about the server's liveness bookkeeping                          *)
(***************************************************************************)

\* C22: every datagram received from a registered client id, of any TYPE,
\* refreshes that client's last_seen and its stored ip and port to the
\* datagram's source.  Checked for the datagrams that come from the
\* client's own host.
C22_Step ==
  LET A == sender_id_of(s_in'.h)
  IN (/\ s_in' # NoInput
      /\ s_in'.ip = IpOf(A)
      /\ A \in DOMAIN clients
      /\ A \in DOMAIN clients')
       => /\ clients'[A].last_seen = s_now
          /\ clients'[A].ip = s_in'.ip
          /\ clients'[A].port = s_in'.port

C22_AnyTrafficRefreshes == [][C22_Step]_vars

\* C23: a sweep of cleanup_loop removes a client record exactly when
\* now - last_seen exceeds HEARTBEAT_TIMEOUT (a record with
\* now - last_seen <= HEARTBEAT_TIMEOUT is never removed by a sweep), and no
\* record is in clients longer than HEARTBEAT_TIMEOUT + CLEANUP_INTERVAL
\* after its last refresh.
C23_Step ==
  /\ s_swept' # s_swept
       => /\ DOMAIN clients' =
               {uid \in DOMAIN clients :
                  s_now - clients[uid].last_seen <= HEARTBEAT_TIMEOUT}
          /\ \A uid \in DOMAIN clients' : clients'[uid] = clients[uid]
  /\ \A uid \in DOMAIN clients' :
       s_now' - clients'[uid].last_seen <= HEARTBEAT_TIMEOUT + CLEANUP_INTERVAL

C23_EvictedExactlyWhenSilent == [][C23_Step]_vars

\* a sweep has just removed the silent client a and kept b
C23_Witness ==
  /\ s_swept = s_now
  /\ "a" \in s_removed
  /\ "b" \in DOMAIN clients
  /\ s_now - clients["b"].last_seen <= HEARTBEAT_TIMEOUT

(***************************************************************************)
(* Claims about the sending side of a file transfer                        *)
(***************************************************************************)

\* the receiving client has accepted the offer of file_id
Accepted(file_id) ==
  /\ file_id \in DOMAIN incoming_files
  /\ incoming_files[file_id].status \in {"receiving", "complete", "failed"}

\* C24: a file offer does not by itself begin the transfer: the outgoing
\* status of a file id leaves 'offered', and a FILE_CHUNK for it is sent,
\* only after the receiver has accepted that offer.
C24_NoChunkBeforeAccept ==
  \A file_id \in DOMAIN outgoing_files :
    \/ outgoing_files[file_id].status = "offered"
    \/ Accepted(file_id)

(***************************************************************************)
(* Claims about group messaging in lsnp.py                                 *)
(***************************************************************************)

\* the members of group gid of node p that a group message goes to
Recipients(p, gid) ==
  {m \in {groups[p][gid].members[i] : i \in 1..Len(groups[p][gid].members)} :
     m # p /\ m \in DOMAIN peers[p]}

GroupMessageTo(p, gid, ip) ==
  \E d \in l_net :
    d.type = "GROUP_MESSAGE" /\ d.src = IpOf(p) /\ d.group_id = gid /\ d.dst = ip

\* the for loop of send_group_message of node p is over
GroupMessageDone(p) ==
  /\ group_loop[p].type = "GROUP_MESSAGE"
  /\ group_loop[p].rest = <<>>
  /\ swr[p].pc \in {"idle", "done"}

EveryMemberReached ==
  \A p \in Nodes :
    GroupMessageDone(p)
      => \A m \in Recipients(p, group_loop[p].group_id) :
           GroupMessageTo(p, group_loop[p].group_id, peers[p][m].ip)

\* C25: a group message to group G is transmitted to every member of G other
\* than the sender that is in the sender's peers, whether or not the members
\* before it answered, and to no one else.
C25_Step ==
  /\ \A p \in Nodes : \A d \in l_net' \ l_net :
       (d.type = "GROUP_MESSAGE" /\ d.src = IpOf(p))
         => /\ d.group_id \in DOMAIN groups[p]
            /\ \E m \in Recipients(p, d.group_id) : d.dst = peers[p][m].ip
  /\ EveryMemberReached'

C26_Step ==
  (/\ Handles("DM") \/ Handles("FOLLOW") \/ Handles("TICTACTOE_INVITE")
   /\ s_in'.h.to \notin DOMAIN clients)
    => (clients' = clients /\ s_out' = {})

RevokeReceived(p, t) ==
  /\ \E i \in 1..Len(message_queue[p]) :
       /\ message_queue[p][i].type = "REVOKE"
       /\ message_queue[p][i].token = t
  /\ message_queue'[p] = <<>>

TokenScopes == {"chat", "dm", "follow", "like", "file", "game", "group"}

\* C27: once a REVOKE for token t has been received, validate_token(t, scope)
\* returns False for every scope.  Checked at the first later state: right
\* after process_messages has dispatched the REVOKE.
C27_Step ==
  \A p \in Nodes, n \in TokenNums, sc \in TokenScopes :
    RevokeReceived(p, Tok(sc, n))
      => \A scope \in TokenScopes :
           ~validate_token(tokens'[p], Tok(sc, n), scope, l_now')

C27_RevocationPermanent == [][C27_Step]_vars

\* C28: send_with_retry returns True only if the destination itself
\* acknowledged: the ACK that the scan of message_queue takes was sent from
\* dest_ip.
C28_Step ==
  \A p \in Nodes :
    (swr[p].pc = "wait" /\ swr'[p].pc = "done" /\ swr'[p].result = "True")
      => message_queue[p][FirstAck(message_queue[p], swr[p].msg_id)].src
           = swr[p].dest_ip

C28_AckFromDestination == [][C28_Step]_vars

\* C29: a PROFILE from an id that is not yet in the directory creates a
\* record for that id holding the datagram's source address, the display
\* name and a fresh last-seen time.  Checked on the server's clients table.
C29_Step ==
  LET sender_id == sender_id_of(s_in'.h)
  IN (Handles("PROFILE") /\ sender_id # None /\ sender_id \notin DOMAIN clients)
       => /\ sender_id \in DOMAIN clients'
          /\ clients'[sender_id].ip = s_in'.ip
          /\ clients'[sender_id].name = s_in'.h.name
          /\ clients'[sender_id].last_seen = s_now'

C29_PassiveDiscovery == [][C29_Step]_vars

\* a client that is not in clients while another client's follows or
\* followers list still names it: cleanup_loop has evicted it
Evicted(b) ==
  /\ b \notin DOMAIN clients
  /\ \E u \in DOMAIN clients :
       Contains(clients[u].follows, b) \/ Contains(clients[u].followers, b)

Targets(b) ==
  /\ Handles("DM") \/ Handles("FOLLOW") \/ Handles("UNFOLLOW")
       \/ Handles("TICTACTOE_INVITE")
  /\ s_in'.h.to = b

\* C30: an eviction leaves the follows and followers lists of every remaining
\* client unchanged, and while B stays evicted a DM, FOLLOW, UNFOLLOW or
\* TICTACTOE_INVITE with TO = B and the fan-out of a POST send nothing to B
\* and raise no exception.
C30_Step ==
  /\ (DOMAIN clients' # DOMAIN clients /\ DOMAIN clients' \subseteq DOMAIN clients)
       => \A u \in DOMAIN clients' :
            /\ clients'[u].follows = clients[u].follows
            /\ clients'[u].followers = clients[u].followers
  /\ \A b \in Users :
       (Evicted(b) /\ (Targets(b) \/ Handles("POST")))
         => /\ \A o \in s_out' : o.ip # IpOf(b)
            /\ Targets(b) => ~handle_message_raises(clients, s_in')

C30_EvictionFrame == [][C30_Step]_vars

\* a has asked to unfollow b after b was evicted: a still follows b, nothing
\* was sent
C30_Witness ==
  /\ s_in.h.type = "UNFOLLOW"
  /\ s_in.h.to = "b"
  /\ sender_id_of(s_in.h) = "a"
  /\ "a" \in DOMAIN clients
  /\ Evicted("b")
  /\ Contains(clients["a"].follows, "b")
  /\ s_out = {}

(***************************************************************************)
(* Claims about locks and threads                                          *)
(***************************************************************************)

\* C31: no thread calls send_udp (a socket send) while holding the lock.
\* Checked on server.py: the handle_message thread is never inside
\* sock.sendto while it holds lock.
C31_NoLockAcrossSend ==
  h_pc = "sendto" => lock # "handle_message"

\* C32: every read-modify-write of a shared table runs under that table's
\* lock, so two threads are never at the same time inside an update of the
\* same table.  Checked on lsnp.py games: the main thread in make_move and
\* the process_messages thread in handle_move are never both between the
\* first and the last write of the same game.
C32_GameUpdatesExclusive ==
  ~(InUpdate(mm) /\ InUpdate(hm))

(***************************************************************************)
(* Claims about discovery in lsnp.py                                       *)
(***************************************************************************)

\* process_messages of node p dispatches the single queued message d
DispatchesOnly(p, d) ==
  /\ message_queue[p] = <<d>>
  /\ message_queue'[p] = <<>>

\* C33: a PROFILE from a known id whose display name differs from the stored
\* record updates the stored display name to the new value, and the same
\* PROFILE repeated right after it logs no further "Updated peer".
C33_Step ==
  \A p \in Nodes, d \in PeersInjected :
    (/\ DispatchesOnly(p, d)
     /\ d.type = "PROFILE"
     /\ ~profile_raises(peers[p], d)
     /\ profile_logs_update(peers[p], d))
      => /\ peers'[p][d.user].display_name = d.name
         /\ ~profile_logs_update(peers'[p], d)

C33_ProfileChangeLoggedOnce == [][C33_Step]_vars

PeerFields == {"ip", "display_name", "avatar", "last_seen"}

\* C40: every entry of peers holds the four fields ip, display_name, avatar
\* and last_seen.
C40_PeerRecordsComplete ==
  \A p \in Nodes : \A u \in DOMAIN peers[p] : DOMAIN peers[p][u] = PeerFields

\* C34: a datagram with valid headers that does not end with a blank line is
\* processed as the same datagram with the terminator appended, never
\* dropped.  Checked on lsnp.py listen_loop: when it takes such a datagram
\* from the socket it queues it as it queues the terminated one.
C34_Step ==
  \A p \in Nodes, d \in PeersInjected :
    LET terminated == [d EXCEPT !.term = TRUE]
    IN (/\ d \in l_net /\ d \notin l_net'
        /\ d.dst = IpOf(p)
        /\ ~d.term
        /\ lsnp_accepts(p, terminated))
         => message_queue'[p] = Append(message_queue[p], terminated)

C34_MissingTerminatorTolerated == [][C34_Step]_vars

(***************************************************************************)
(* Claims about invitations and board convergence                          *)
(***************************************************************************)

\* the process_messages thread of node a runs handle_invite for game g1
InviteDispatched ==
  /\ hm.pc = "out"
  /\ hm'.last = "handle_invite"
  /\ mm' = mm

\* C35: a TICTACTOE_INVITE whose GAMEID already exists in games leaves that
\* game's players, board, move log, turn and status unchanged, even when
\* moves have already been applied.
C35_Step ==
  (InviteDispatched /\ "g1" \in DOMAIN games["a"])
    => /\ "g1" \in DOMAIN games'["a"]
       /\ games'["a"]["g1"] = games["a"]["g1"]

C35_InviteIdempotent == [][C35_Step]_vars

\* the invitation was dispatched last, after a move of the opponent and a
\* move of the local user had been applied
C35_Witness ==
  /\ hm.last = "handle_invite"
  /\ "g1" \in DOMAIN games["a"]
  /\ \E i \in 1..Len(games["a"]["g1"].moves) : games["a"]["g1"].moves[i][3] = "opponent"
  /\ \E i \in 1..Len(games["a"]["g1"].moves) : games["a"]["g1"].moves[i][3] = "a"

(***************************************************************************)
(* Claims about the chunk count                                            *)
(***************************************************************************)

\* ceil(s / 1024): the least n with n * 1024 >= s
CeilChunks(s) ==
  CHOOSE n \in 0..s : n * FILE_CHUNK_SIZE >= s /\ (n - 1) * FILE_CHUNK_SIZE < s

MovesSettled ==
  /\ \A d \in l_net : d.type # "TICTACTOE_MOVE"
  /\ \A p \in Nodes : \A i \in 1..Len(message_queue[p]) :
       message_queue[p][i].type # "TICTACTOE_MOVE"
  /\ \A p \in Nodes : ~InCall(p)

\* C37: for the game between a and b, once no move is in flight or waiting to
\* be dispatched, the two peers hold identical boards and the same number of
\* applied moves.
C37_BoardsConverge ==
  (/\ MovesSettled
   /\ "g1" \in DOMAIN games["a"]
   /\ "g1" \in DOMAIN games["b"])
    => /\ games["a"]["g1"].board = games["b"]["g1"].board
       /\ Len(games["a"]["g1"].moves) = Len(games["b"]["g1"].moves)

(***************************************************************************)
(* Claims about the states of an incoming transfer                         *)
(***************************************************************************)

TerminalStatus == {"complete", "ignored", "failed"}

LegalMoves ==
  {<<"pending", "receiving">>, <<"pending", "ignored">>, <<"receiving", "ignored">>,
   <<"receiving", "complete">>, <<"receiving", "failed">>}

\* C38: while the record of an incoming transfer exists, a status of
\* 'complete', 'ignored' or 'failed' and the received_chunks that go with it
\* never change, and the status moves only along pending->receiving,
\* pending->ignored, receiving->ignored, receiving->complete and
\* receiving->failed.
C38_Step ==
  \A f \in DOMAIN incoming_files \cap DOMAIN incoming_files' :
    LET old == incoming_files[f]
        new == incoming_files'[f]
    IN /\ old.status \in TerminalStatus
            => /\ new.status = old.status
               /\ new.received_chunks = old.received_chunks
       /\ new.status # old.status => <<old.status, new.status>> \in LegalMoves

C38_TerminalStatesAbsorbing == [][C38_Step]_vars

\* listen_loop has handled a FILE_CHUNK with undecodable DATA for f1 after
\* the transfer was completed: f1 is still complete
C38_Witness ==
  /\ c_in.file_id = "f1"
  /\ c_in.data = BadData
  /\ "f1" \in DOMAIN incoming_files
  /\ incoming_files["f1"].status = "complete"
  /\ "f1" \in DOMAIN downloads

\* C39: a FILE_OFFER or FILE_CHUNK whose TO names client b, relayed by the
\* server, never creates or modifies an incoming_files entry at another
\* client: the table of the third client c stays empty.
C39_OnlyAddresseeReceives ==
  incoming_files = <<>>

====
